---- MODULE Spec2Model ----
(***************************************************************************)
(* FiberStack-Lite: the ingestion gateway (/api/ingest), the ETL worker    *)
(* and the token service, as state machines over the shared kv-store, the  *)
(* work queue and the time-series store.                                   *)
(*                                                                         *)
(* Time is the wall clock in seconds.  A kv key is modelled by its expiry  *)
(* instant (0 = absent); a key exists while its expiry lies in the future. *)
(* A request handler runs to completion between two clock steps.           *)
(***************************************************************************)
EXTENDS Integers, Sequences, FiniteSets, TLC

\* ------------------------------------------------------------------ bounds
MaxTicks == 3
MaxRequests == 2
MaxTokens == 3
MaxAuthRequests == 3

\* ------------------------------------------------------- program constants
TIMESTAMP_WINDOW_SEC == 300
NONCE_TTL_SEC == 600
IDEMPOTENCY_TTL_SEC == 600
DEDUP_TTL_SEC == 180
BATCH_SIZE == 100
REVOKE_SKEW_SEC == 300
JWT_ACCESS_EXPIRY_MINUTES == 15
JWT_REFRESH_EXPIRY_DAYS == 7
\* "exp": 9999999999 in the source; TLC integers are 32-bit, and any instant
\* beyond the clock's reach behaves alike
FEDERATION_EXP == 2000000000

FEDERATION_SECRET == "federation_secret"

ALLOWED_REGIONS == {"gh-accra", "ng-lagos", "ke-nairobi"}

NODE_ROLE == "central"

REGION_VALIDATION == "strict"

PUBLIC_PATHS == {"/health", "/api/auth/login", "/api/status"}

\* ------------------------------------------------------------ small domains
Nodes == {"n1", "n2"}

Nonces == {"k1", "k2"}

BatchIds == {"b1", "b2"}

\* an absent header: request.headers.get(...) gives None, which is falsy
NoHeader == ""

Abs(x) == IF x < 0 THEN -x ELSE x

Min(a, b) == IF a < b THEN a ELSE b

Max(a, b) == IF a > b THEN a ELSE b

\* -------------------------------------------------------------- metrics
\* A metric timestamp is an ISO-8601 string: its first 19 characters (the
\* wall-clock second as written), the sub-second fraction and the UTC offset.
Stamp(w, f, o) == [wall |-> w, frac |-> f, off |-> o]

\* datetime.fromisoformat(...): the instant the string denotes
Instant(ts) == <<ts.wall - ts.off, ts.frac>>

Metric(n, ts, c, r) == [node_id |-> n, timestamp |-> ts, country |-> c, region |-> r]

m_a == Metric("n1", Stamp(0, 0, 0), "GH", "accra")

m_b == Metric("n1", Stamp(0, 5, 0), "GH", "accra")

m_c == Metric("n1", Stamp(60, 0, 60), "GH", "accra")

m_d == Metric("n2", Stamp(60, 0, 0), "GH", "accra")

m_z == Metric("n2", Stamp(0, 0, 0), "ZZ", "Mars Base")

\* raw request bodies, named by their bytes; Bodies[b] is what json.loads and
\* BatchPayload(**body) make of them ("bad" does not parse)
BodyIds == {"A", "B", "C", "D", "Z", "bad"}

ParsedBody(b) ==
    CASE b = "A" -> [node_id |-> "n1", metrics |-> <<m_a>>]
      [] b = "B" -> [node_id |-> "n1", metrics |-> <<m_a, m_b, m_d>>]
      [] b = "C" -> [node_id |-> "n1", metrics |-> <<m_c, m_c>>]
      [] b = "D" -> [node_id |-> "n2", metrics |-> <<m_d>>]
      [] b = "Z" -> [node_id |-> "n2", metrics |-> <<m_z>>]
      [] OTHER   -> [node_id |-> "", metrics |-> <<>>]

BodyParses(b) == b # "bad"


\* ------------------------------------------------------------------ state
VARIABLES
    now,          \* wall clock, seconds
    ticks,        \* clock steps taken (bounded by MaxTicks)
    kvUp,         \* the kv-store answers
    nonceKey,     \* kv: nonce:<nonce> -> expiry
    idemKey,      \* kv: idempotency:batch:<id> -> expiry
    dedupKey,     \* kv: dedup:<node_id>:<timestamp[:19]> -> expiry
    revokedKey,   \* kv: revoked:jti:<jti> -> expiry
    rejections,   \* kv: fiber:metrics:ingest_rejection_count
    queue,        \* kv list fiber:etl:queue, head first
    metrics,      \* store: rows of table metrics, in commit order
    conflicts,    \* store: rows of table metric_conflicts
    etl,          \* per ETL replica: position in process_batch and its batch
    useCopy,      \* ETL_USE_COPY
    dedupEnabled, \* ETL_DEDUP_ENABLED
    issued,       \* token pairs handed out by issue_tokens
    nextJti,      \* next fresh jti (uuid4)
    reqCount,     \* requests served so far (bounded by MaxRequests)
    last,         \* the /ingest request served last and its response
    lastAuth,     \* the token-bearing request served last and its response
    acceptedAt,   \* history: batch id -> when /ingest last answered it 2xx (-1: never)
    enqueuedTimes,   \* history: (node_id, timestamp) -> times that metric was enqueued
    enqueuedBatches, \* history: (node_id, timestamp) -> requests that enqueued that metric
    done,         \* the process_batch call that ended last: what it popped, how it ended
    faulted,      \* history: a worker died or a store transaction failed
    refreshing,   \* per jti: /auth/refresh calls between their revocation check and revoke_jti
    rotated,      \* history: refresh jtis that a refresh accepted
    everRevoked,  \* history: jtis passed to revoke_jti
    limiterState, \* RateLimiter.state: "distributed" or "local"
    redis_health_streak, \* RateLimiter.redis_health_streak
    script_sha,   \* RateLimiter.script_sha is set (the process holds the script's digest)
    scriptCached, \* the kv-store holds the rate-limit script under that digest
    local_buckets, \* RateLimiter.local_buckets: key -> tokens left in its LeakyBucket
    pushing,      \* the /api/push request that passed the middleware and awaits its route
    pushCount,    \* /api/push requests received so far
    lastPush,     \* the /api/push request answered last and its response
    okRun,        \* history: kv-store checks of the limiter that succeeded since its last error
    last_hash,    \* audit.py's _last_hash of the running gateway process
    auditFile,    \* the lines of the audit log file
    auditCalls,   \* audit_log calls made so far
    bufRows,      \* the rows of the probe's DurableBuffer queue table
    nextRowId,    \* the id AUTOINCREMENT gives the next row
    produced,     \* metrics the producer has collected so far
    consumerPc,   \* the probe's consumer: "idle", or "pushing" between peek and result
    peeked,       \* the consumer's batch_items: what its last peek returned
    pushOk,       \* the success the controller reported for the last batch
    mono,         \* the probe's clock, seconds (time.monotonic and time.time alike)
    probeTicks,   \* steps the probe's clock has taken
    active_index, \* FailoverController.active_index
    cooldown_until, \* FailoverController.cooldown_until
    ctlSuccesses, \* FailoverController.consecutive_successes
    ctlFailures,  \* FailoverController.consecutive_failures
    backoff_sec,  \* FailoverController.backoff_sec
    ctlPushes,    \* FailoverController.push calls made so far
    lastCtl,      \* what the last FailoverController.push returned
    failoverAt,   \* history: when the controller last left the primary (-1: never)
    failoverTo,   \* history: the target it switched to then
    consecutive_failures, \* FederationClient.consecutive_failures
    circuit_open, \* FederationClient.circuit_open
    circuit_reset_time, \* FederationClient.circuit_reset_time
    clientCalls,  \* push_batch calls made so far
    lastCall,     \* the last push_batch call: the requests it sent, what it returned
    failedRun,    \* history: push_batch calls in a row that sent a request and failed
    breakers,     \* CIRCUIT_BREAKERS: per aggregate table its failures, is_open, last_failure
    probing,      \* per aggregate table: queries admitted to it whose outcome is not recorded yet
    disabledKey,  \* kv: aggregation:disabled -> expiry
    cacheKey,     \* kv: fiberstack:cache:dashboard:aggregated:<hash> -> the entry stored
    aggCalls,     \* aggregate queries received so far
    lastAgg,      \* the aggregate query answered last and its response
    alertKey,     \* kv: alert:dedup:<node>:<metric>:<severity> -> expiry
    quotaKey,     \* kv: alerts:quota:node:<node> -> its count and expiry
    alertPc,      \* per ETL replica: position of AlertEngine.process and its alerts
    dispatchLog,  \* history: the alerts handed to the dispatcher, in order
    dedupDropped, \* ALERTS_DROPPED_TOTAL{reason="dedup"}
    alertCalls,   \* AlertEngine.process calls made so far
    handling,     \* per concurrent /api/ingest call: where ingest_batch stands
    calling,      \* the probe's push_batch call against the gateway: its attempts
    nodeRows,     \* table nodes: per node_id its row, if any
    cacheNodes,   \* the kv-store set cache:nodes
    observed,     \* nodes of which the ETL has committed a metric
    lastNode      \* status code of the latest POST /nodes

kvVars == <<kvUp, nonceKey, idemKey, dedupKey, revokedKey, rejections, queue>>

storeVars == <<metrics, conflicts>>

etlVars == <<etl, useCopy, dedupEnabled, done, faulted>>

authVars == <<issued, nextJti, refreshing, rotated, everRevoked>>

gwHist == <<acceptedAt, enqueuedTimes, enqueuedBatches>>

limiterVars == <<limiterState, redis_health_streak, script_sha, scriptCached, local_buckets>>

pushVars == <<pushing, pushCount, lastPush, okRun>>

auditVars == <<last_hash, auditFile, auditCalls>>

bufferVars == <<bufRows, nextRowId, produced, consumerPc, peeked, pushOk>>

clockVars == <<mono, probeTicks>>

failoverVars == <<active_index, cooldown_until, ctlSuccesses, ctlFailures, backoff_sec,
                  ctlPushes, lastCtl, failoverAt, failoverTo>>

clientVars == <<consecutive_failures, circuit_open, circuit_reset_time, clientCalls, lastCall,
                failedRun>>

aggVars == <<breakers, probing, disabledKey, cacheKey, aggCalls, lastAgg>>

alertVars == <<alertKey, quotaKey, alertPc, dispatchLog, dedupDropped, alertCalls>>

raceVars == <<handling>>

retryVars == <<calling>>

nodeVars == <<nodeRows, cacheNodes, observed, lastNode>>

extVars == <<aggVars, alertVars, raceVars, retryVars, nodeVars>>

sideVars == <<limiterVars, pushVars, auditVars, bufferVars, clockVars, failoverVars,
              clientVars, extVars>>

vars == <<now, ticks, kvVars, storeVars, etlVars, authVars, reqCount, last, lastAuth, gwHist,
          sideVars>>

\* ---------------------------------------------------------------- kv-store
\* redis EXISTS: a key set with SETEX is there until its TTL has run out
Exists(expiry) == expiry > now

\* redis SETEX key ttl: the expiry the key gets
SetEx(ttl) == now + ttl


\* ------------------------------------------------------------ bearer tokens
Users == {"admin", "viewer"}

ADMIN_USERS == {"admin"}

OPERATOR_USERS == {"operator"}

STATIC_FEDERATION_JTI == 0

Jtis == 0..(2 * MaxTokens)

\* what follows "Bearer " in the Authorization header
NoBearer == [kind |-> "none", jti |-> -1, sub |-> "", type |-> "", exp |-> 0]

SecretBearer == [kind |-> "secret", jti |-> -1, sub |-> "", type |-> "", exp |-> 0]

GarbageBearer == [kind |-> "garbage", jti |-> -1, sub |-> "", type |-> "", exp |-> 0]

Jwt(j, u, ty, e) == [kind |-> "jwt", jti |-> j, sub |-> u, type |-> ty, exp |-> e]

get_user_role(username) ==
    IF username \in ADMIN_USERS THEN "ADMIN"
    ELSE IF username \in OPERATOR_USERS THEN "OPERATOR"
    ELSE IF username \in Users THEN "VIEWER" ELSE "ANONYMOUS"

PERMISSIONS(role) ==
    CASE role = "ADMIN" -> {"admin:roles", "admin:audit", "view:metrics", "monitor:nodes",
                            "write:node:create", "write:node:delete"}
      [] role = "OPERATOR" -> {"view:metrics", "monitor:nodes", "write:node:create"}
      [] role = "VIEWER" -> {"view:metrics"}
      [] OTHER -> {}

\* issue_tokens: the access and the refresh token of one pair
AccessToken(j, u) == Jwt(j, u, "access", now + JWT_ACCESS_EXPIRY_MINUTES * 60)

RefreshToken(j, u) == Jwt(j, u, "refresh", now + JWT_REFRESH_EXPIRY_DAYS * 86400)

\* jwt.decode with HS256, audience and expiry: only tokens this gateway
\* signed verify, and only before their exp
verify_token_claims(tok) == tok.kind = "jwt" /\ tok \in issued /\ tok.exp > now

\* a denylist entry that lasts for the ttl alone
RevokeExpiry_NoSkew(ttl) == SetEx(ttl)

\* revoke_jti: redis.setex(key, ttl + 300, "revoked")
RevokeExpiry(ttl) == SetEx(ttl + REVOKE_SKEW_SEC)

revoke_jti(key, jti, ttl) == [key EXCEPT ![jti] = RevokeExpiry(ttl)]

\* a denylist that is never consulted
is_jti_revoked_Never(jti) == FALSE

is_jti_revoked(jti) == Exists(revokedKey[jti])

\* the ttl both callers of revoke_jti compute: max(0, exp - now)
RemainingLifetime(exp) == Max(0, exp - now)

Anonymous == [username |-> "anonymous", role |-> "ANONYMOUS", jti |-> -1, exp |-> 0]

FederationProbe == [username |-> "federation_probe", role |-> "OPERATOR",
                    jti |-> STATIC_FEDERATION_JTI, exp |-> FEDERATION_EXP]

\* a middleware that answers 503 on /api/push too when revocation cannot be checked
Dispatch_FailClosed(bearer, path) ==
    IF path \in PUBLIC_PATHS THEN [code |-> 0, user |-> Anonymous]
    ELSE IF bearer.kind = "none" THEN [code |-> 0, user |-> Anonymous]
    ELSE IF bearer.kind = "secret" THEN [code |-> 0, user |-> FederationProbe]
    ELSE IF verify_token_claims(bearer)
    THEN IF ~kvUp THEN [code |-> 503, user |-> Anonymous]
         ELSE IF is_jti_revoked(bearer.jti) THEN [code |-> 401, user |-> Anonymous]
         ELSE [code |-> 0, user |-> [username |-> bearer.sub, role |-> get_user_role(bearer.sub),
                                     jti |-> bearer.jti, exp |-> bearer.exp]]
    ELSE IF path = "/api/ingest" THEN [code |-> 0, user |-> Anonymous]
    ELSE [code |-> 401, user |-> Anonymous]

\* AuthMiddleware.dispatch: code = 0 hands the request on to the route with
\* request.state.user = user; any other code is the middleware's own answer
Dispatch(bearer, path) ==
    IF path \in PUBLIC_PATHS THEN [code |-> 0, user |-> Anonymous]
    ELSE IF bearer.kind = "none" THEN [code |-> 0, user |-> Anonymous]
    ELSE IF bearer.kind = "secret" THEN [code |-> 0, user |-> FederationProbe]
    ELSE IF verify_token_claims(bearer)
    THEN IF ~kvUp /\ path # "/api/push"
         THEN [code |-> 503, user |-> Anonymous]
         ELSE IF kvUp /\ is_jti_revoked(bearer.jti)
         THEN [code |-> 401, user |-> Anonymous]
         ELSE [code |-> 0,
               user |-> [username |-> bearer.sub, role |-> get_user_role(bearer.sub),
                         jti |-> bearer.jti, exp |-> bearer.exp]]
    ELSE IF path = "/api/ingest" THEN [code |-> 0, user |-> Anonymous]
    ELSE [code |-> 401, user |-> Anonymous]


\* ---------------------------------------------------- /api/ingest: request
\* X-Fiber-Timestamp: absent, unparsable ("garbage"), ISO-8601 without an
\* offset ("naive"), or with one ("aware"); skew = the instant it names
\* minus the gateway's clock at receipt
NoTs == [kind |-> "absent", skew |-> 0]

Ts(k, d) == [kind |-> k, skew |-> d]

\* X-Fiber-Signature: hex of HMAC-SHA256(key, "bid:ts:nonce:sha256(body)"),
\* named by what was signed and with which key
NoSig == [kind |-> "absent", key |-> "", bid |-> "", ts |-> NoTs, nonce |-> "", body |-> ""]

HmacSha256(key, bid, ts, nonce, body) ==
    [kind |-> "hmac", key |-> key, bid |-> bid, ts |-> ts, nonce |-> nonce, body |-> body]

IngestRequest(sig, ts, nonce, bid, body, bearer, regionHdr) ==
    [sig |-> sig, timestamp |-> ts, nonce |-> nonce, batch_id |-> bid,
     body |-> body, bearer |-> bearer, region_hdr |-> regionHdr]

\* routes.py:146  if signature and timestamp and nonce and batch_id
HmacBlockRuns(r) ==
    /\ r.sig.kind # "absent"
    /\ r.timestamp.kind # "absent"
    /\ r.nonce # NoHeader
    /\ r.batch_id # NoHeader

\* routes.py:148-154: fromisoformat raises ValueError on an unparsable
\* string (401); subtracting a naive datetime from the aware now raises
\* TypeError, which nothing catches (500); otherwise the 300 s window
TimestampVerdict(ts) ==
    IF ts.kind = "garbage" THEN 401
    ELSE IF ts.kind = "naive" THEN 500
    ELSE IF Abs(now - (now + ts.skew)) > TIMESTAMP_WINDOW_SEC THEN 401
    ELSE 0

\* routes.py:163-170
ExpectedSig(r) == HmacSha256(FEDERATION_SECRET, r.batch_id, r.timestamp, r.nonce, r.body)

SignatureMatches(r) == r.sig = ExpectedSig(r)

\* routes.py:184-212 with JWT_PUBLIC_KEY unset (its default): the RS256
\* branch is off and the bearer must be the federation secret itself
BearerVerdict(bearer) ==
    IF bearer.kind = "none" THEN 401
    ELSE IF bearer.kind # "secret" THEN 401
    ELSE 0

\* routes.py:215  f"idempotency:batch:{batch_id}": None formats as "None"
IdempotencyKeyOf(bid) == IF bid = NoHeader THEN "None" ELSE bid

\* routes.py:228-230  lower(country)-lower(region with spaces as hyphens)
DerivedRegion(m) ==
    CASE m.country = "GH" /\ m.region = "accra" -> "gh-accra"
      [] m.country = "ZZ" /\ m.region = "Mars Base" -> "zz-mars-base"
      [] OTHER -> "xx-unknown"

\* routes.py:223-234
SourceRegion(r, batch) ==
    IF r.region_hdr # NoHeader THEN r.region_hdr
    ELSE IF Len(batch.metrics) > 0 THEN DerivedRegion(batch.metrics[1])
    ELSE "unknown"

\* routes.py:237-238
RegionRejected(sr) ==
    /\ sr \notin ALLOWED_REGIONS
    /\ sr # "unknown"
    /\ REGION_VALIDATION = "strict"
    /\ NODE_ROLE = "central"

\* routes.py:265-272  metric.model_dump plus the _meta block
Payload(m, sr) ==
    [node_id |-> m.node_id, timestamp |-> m.timestamp, country |-> m.country,
     region |-> m.region, meta |-> [ingested_by |-> NODE_ROLE, source_region |-> sr]]

\* routes.py:260-274  the rows of the batch whose node_id is the batch's
RECURSIVE EnqueuedPayloads(_, _, _)
EnqueuedPayloads(ms, node, sr) ==
    IF ms = <<>> THEN <<>>
    ELSE IF Head(ms).node_id # node THEN EnqueuedPayloads(Tail(ms), node, sr)
    ELSE <<Payload(Head(ms), sr)>> \o EnqueuedPayloads(Tail(ms), node, sr)

Result(code, nonceSet, idemSet, rejected, pushed) ==
    [code |-> code, nonceSet |-> nonceSet, idemSet |-> idemSet,
     rejected |-> rejected, pushed |-> pushed]

\* ingest_batch from the idempotency step on (routes.py:214-287);
\* pipeFault: pipeline.execute() raises
IngestTail(r, nonceSet, pipeFault) ==
    LET batch == ParsedBody(r.body)
        sr == SourceRegion(r, batch)
    IN  IF Exists(idemKey[IdempotencyKeyOf(r.batch_id)])
        THEN Result(200, nonceSet, FALSE, FALSE, <<>>)
        ELSE IF RegionRejected(sr)
        THEN Result(400, nonceSet, TRUE, TRUE, <<>>)
        ELSE IF pipeFault
        THEN Result(500, nonceSet, TRUE, FALSE, <<>>)
        ELSE Result(200, nonceSet, TRUE, FALSE, EnqueuedPayloads(batch.metrics, batch.node_id, sr))

\* ingest_batch after the HMAC block: parse (routes.py:177-181; the except
\* clause names ValidationError, which routes.py never imports, so a body
\* that does not parse ends in NameError, a 500) and the bearer check
IngestBody(r, nonceSet, pipeFault) ==
    IF ~BodyParses(r.body) THEN Result(500, nonceSet, FALSE, FALSE, <<>>)
    ELSE IF BearerVerdict(r.bearer) # 0
    THEN Result(BearerVerdict(r.bearer), nonceSet, FALSE, FALSE, <<>>)
    ELSE IngestTail(r, nonceSet, pipeFault)

\* ingest_batch, whole (routes.py:106-287)
ingest_batch(r, pipeFault) ==
    IF ~HmacBlockRuns(r) THEN IngestBody(r, FALSE, pipeFault)
    ELSE IF TimestampVerdict(r.timestamp) # 0
    THEN Result(TimestampVerdict(r.timestamp), FALSE, FALSE, FALSE, <<>>)
    ELSE IF Exists(nonceKey[r.nonce])
    THEN Result(401, FALSE, FALSE, FALSE, <<>>)
    ELSE IF ~SignatureMatches(r)
    THEN Result(401, TRUE, FALSE, FALSE, <<>>)
    ELSE IngestBody(r, TRUE, pipeFault)


\* ------------------------------------------------------ /api/ingest: inputs
IdemKeys == BatchIds \cup {"None"}

Skews == {0, -300, -360, 360}

SentTimestamps == {Ts("garbage", 0), Ts("naive", 0), Ts("naive", -360)}
                  \cup {Ts("aware", d) : d \in Skews}

\* a signature over the request's own headers and body, by the probe's key
\* or by another one
SigBy(key, ts, nonce, bid, body) == HmacSha256(key, bid, ts, nonce, body)

\* requests carrying all four signing headers
SignedRequests ==
    {IngestRequest(SigBy(key, ts, n, "b1", "A"), ts, n, "b1", "A", SecretBearer, NoHeader) :
        key \in {FEDERATION_SECRET, "other_secret"}, ts \in SentTimestamps, n \in Nonces}
    \cup {IngestRequest(SigBy(FEDERATION_SECRET, Ts("aware", 0), "k1", "b1", "A"),
                        Ts("aware", 0), "k1", "b1", "A", GarbageBearer, NoHeader)}

\* requests in which some of the four headers are missing
PartialRequests ==
    {IngestRequest(IF key # "" THEN SigBy(key, ts, n, b, "A") ELSE NoSig, ts, n, b, "A",
                   SecretBearer, NoHeader) :
        key \in {"", FEDERATION_SECRET, "other_secret"}, ts \in {NoTs, Ts("aware", 0)},
        n \in {NoHeader, "k1"}, b \in {NoHeader, "b1"}}
    \ SignedRequests

\* unsigned requests: batch id, body, bearer and X-Region-ID vary
PlainRequests ==
    {IngestRequest(NoSig, NoTs, NoHeader, b, body, SecretBearer, NoHeader) :
        b \in BatchIds, body \in {"A", "B", "Z", "bad"}}
    \cup {IngestRequest(NoSig, NoTs, NoHeader, "b1", "A", bearer, NoHeader) :
            bearer \in {NoBearer, GarbageBearer}}
    \cup {IngestRequest(NoSig, NoTs, NoHeader, "b1", "Z", SecretBearer, "ng-lagos")}

IngestRequests == SignedRequests \cup PartialRequests \cup PlainRequests

\* the batches the ETL specification is fed with
ProbeRequests ==
    {IngestRequest(NoSig, NoTs, NoHeader, b, body, SecretBearer, NoHeader) :
        <<b, body>> \in {<<"b1", "A">>, <<"b2", "A">>, <<"b2", "C">>, <<"b1", "B">>}}

NoRequest == IngestRequest(NoSig, NoTs, NoHeader, NoHeader, "", NoBearer, NoHeader)

\* the /api/ingest calls that can be in progress at once, in one gateway
\* process or in several
Handlers == {"h1", "h2"}

\* a call of ingest_batch between its awaits; passedAt is when it found the
\* nonce key absent (-1: it has not)
NoHandling == [pc |-> "idle", req |-> NoRequest, passedAt |-> -1, code |-> 0]

\* a node_id without a row in the table nodes
NoRow == [status |-> "absent", last_seen_at |-> -1]

\* a push_batch call of the probe's client as the gateway sees it: the
\* request built before the retry loop, the attempts made, whether one of
\* them reached the nonce check and ended in a 5xx or a timeout, whether one
\* of them enqueued the batch, and how the latest attempt went
NoCall == [pc |-> "idle", req |-> NoRequest, attempt |-> 0, reached |-> FALSE,
           enqueued |-> FALSE, arrived |-> FALSE, fault |-> FALSE, result |-> FALSE]

\* ------------------------------------------------------------------- Init
NoBatch == [pc |-> "idle", popped |-> <<>>, batch |-> <<>>]

\* a served request as lastAuth keeps it: body is the refresh token of an
\* /auth/refresh body; code 0 stands for "no answer yet" or "handed to the route"
AuthRequest(kind, bearer, path, body, code) ==
    [kind |-> kind, bearer |-> bearer, path |-> path, body |-> body, code |-> code]

NoAuthRequest == AuthRequest("none", NoBearer, "", NoBearer, 0)

\* what identifies a metric as sent: its node and its timestamp as written
MetricKeys == {<<m.node_id, m.timestamp>> : m \in {m_a, m_b, m_c, m_d, m_z}}

EtlReplicas == {"w1", "w2"}

WallSeconds == {0, 60}

\* ------------------------------------------ aggregate query layer: settings
\* CircuitBreaker.__init__ defaults
FAILURE_THRESHOLD == 5

RESET_TIMEOUT == 60

ROLLBACK_COOLDOWN_SECONDS == 300

TTL_CLUSTER == 60

TTL_REALTIME == 10

\* AggregationConfig.USE_AGGREGATES, the default of the environment variable
USE_AGGREGATES == TRUE

AggregateTables ==
    {"aggregates_1m", "aggregates_5m_node", "aggregates_5m_region", "aggregates_hourly",
     "aggregates_daily"}

\* AggregationConfig.MAX_LAG_SECONDS
MAX_LAG_SECONDS(view_name) ==
    CASE view_name = "aggregates_1m" -> 120
      [] view_name = "aggregates_5m_node" -> 600
      [] view_name = "aggregates_5m_region" -> 600
      [] view_name = "aggregates_hourly" -> 7200
      [] view_name = "aggregates_daily" -> 86400
      [] OTHER -> 3600

\* a breaker as CircuitBreaker.__init__ leaves it (last_failure -1: None)
CircuitBreaker == [failures |-> 0, is_open |-> FALSE, last_failure |-> -1]

\* the queries put to /metrics/aggregated: a dimension and a window from
\* start_time to end_time; the cache key is made of these three
Windows == {60, 300, 3600}

Dimensions == {"node", "region"}

Queries == Dimensions \X Windows

\* a cache slot without an entry; an entry keeps when it was written
\* (cached_at), whether its data is an empty list, and, as history, the
\* ingests that had been accepted when it was written
NoEntry == [expiry |-> 0, cached_at |-> 0, empty |-> TRUE, ingests |-> 0]

NoAggResponse ==
    [code |-> 0, source |-> "", window |-> 0, table |-> "", stale |-> FALSE, ingests |-> 0]

\* ------------------------------------------------- alert engine: settings
ALERT_LATENCY_WARN == 200

ALERT_LATENCY_CRIT == 500

ALERT_LOSS_WARN == 1

ALERT_LOSS_CRIT == 5

ALERT_UPTIME_WARN == 95

ALERT_LOOP_COOLDOWN_SEC == 900

NODE_RATE_LIMIT == 5

NODE_QUOTA_TTL == 3600

\* Alert.get_dedup_key: node, metric name, severity
AlertKeys == Nodes \X {"latency_ms", "packet_loss", "uptime_pct"} \X {"warning", "critical"}

\* a replica outside AlertEngine.process
NoAlerts == [pc |-> "idle", alerts |-> <<>>, since |-> 0]

\* --------------------------------------------- failover controller: settings
STICKINESS_SEC == 120

PROMOTION_THRESHOLD == 5

INITIAL_BACKOFF == 1

MAX_BACKOFF == 60

\* ---------------------------------------------------- audit log: its state
\* hashes are tuples here; GENESIS is the one no entry hashes to
GENESIS == <<>>

\* ------------------------------------------------- rate limiter: its state
RATE_LIMIT_LOCAL_RATE == 5

\* the keys check_ingest derives for callers that pass require_auth:
\* "user:<username>"
RateKeys == Users \cup {FederationProbe.username}

\* LeakyBucket(rate, capacity): it starts full
LeakyBucket(capacity) == [tokens |-> capacity, last_update |-> now]

\* failedOpen: the middleware could not check revocation and let it pass
NoPush == [active |-> FALSE, user |-> Anonymous, bearer |-> NoBearer, failedOpen |-> FALSE]

\* a response of /api/push: policy is its X-RateLimit-Policy header ("" when
\* it has none), retry_after says whether it carries Retry-After, allowed is
\* what the token-bucket script answered (-1: it gave no answer), via is the
\* evalsha call that answer came from
PushResponse(bearer, code, policy, retry_after, allowed, via, failedOpen) ==
    [bearer |-> bearer, code |-> code, policy |-> policy, retry_after |-> retry_after,
     allowed |-> allowed, via |-> via, failedOpen |-> failedOpen]

NoPushResponse == PushResponse(NoBearer, 0, "", FALSE, -1, "none", FALSE)

Init ==
    /\ now = 0
    /\ ticks = 0
    /\ kvUp = TRUE
    /\ nonceKey = [n \in Nonces |-> 0]
    /\ idemKey = [b \in IdemKeys |-> 0]
    /\ dedupKey = [k \in Nodes \X WallSeconds |-> 0]
    /\ revokedKey = [j \in Jtis |-> 0]
    /\ rejections = 0
    /\ queue = <<>>
    /\ metrics = <<>>
    /\ conflicts = <<>>
    /\ etl = [w \in EtlReplicas |-> NoBatch]
    /\ useCopy \in BOOLEAN
    /\ dedupEnabled \in BOOLEAN
    /\ issued = {}
    /\ nextJti = 1
    /\ reqCount = 0
    /\ last = [req |-> NoRequest, code |-> 0, pushed |-> 0]
    /\ lastAuth = NoAuthRequest
    /\ acceptedAt = [b \in IdemKeys |-> -1]
    /\ enqueuedTimes = [k \in MetricKeys |-> 0]
    /\ enqueuedBatches = [k \in MetricKeys |-> 0]
    /\ done = [popped |-> <<>>, path |-> "none"]
    /\ faulted = FALSE
    /\ refreshing = [j \in Jtis |-> 0]
    /\ rotated = {}
    /\ everRevoked = {}
    /\ limiterState = "distributed"
    /\ redis_health_streak = 0
    /\ script_sha = FALSE
    /\ scriptCached = FALSE
    /\ local_buckets = [k \in RateKeys |-> LeakyBucket(RATE_LIMIT_LOCAL_RATE)]
    /\ pushing = NoPush
    /\ pushCount = 0
    /\ lastPush = NoPushResponse
    /\ okRun = 0
    /\ last_hash = GENESIS
    /\ auditFile = <<>>
    /\ auditCalls = 0
    /\ bufRows = {}
    /\ nextRowId = 1
    /\ produced = 0
    /\ consumerPc = "idle"
    /\ peeked = <<>>
    /\ pushOk = TRUE
    /\ mono = 0
    /\ probeTicks = 0
    /\ active_index = 0
    /\ cooldown_until = 0
    /\ ctlSuccesses = 0
    /\ ctlFailures = 0
    /\ backoff_sec = INITIAL_BACKOFF
    /\ ctlPushes = 0
    /\ lastCtl = [success |-> TRUE, active |-> -1]
    /\ failoverAt = -1
    /\ failoverTo = 0
    /\ consecutive_failures = 0
    /\ circuit_open = FALSE
    /\ circuit_reset_time = 0
    /\ clientCalls = 0
    /\ lastCall = [requests |-> <<>>, result |-> TRUE, skipped |-> FALSE]
    /\ failedRun = 0
    /\ breakers = [t \in AggregateTables |-> CircuitBreaker]
    /\ probing = [t \in AggregateTables |-> 0]
    /\ disabledKey = 0
    /\ cacheKey = [q \in Queries |-> NoEntry]
    /\ aggCalls = 0
    /\ lastAgg = NoAggResponse
    /\ alertKey = [k \in AlertKeys |-> 0]
    /\ quotaKey = [n \in Nodes |-> [count |-> 0, expiry |-> 0]]
    /\ alertPc = [w \in EtlReplicas |-> NoAlerts]
    /\ dispatchLog = <<>>
    /\ dedupDropped = 0
    /\ alertCalls = 0
    /\ handling = [h \in Handlers |-> NoHandling]
    /\ calling = NoCall
    /\ nodeRows = [n \in Nodes |-> NoRow]
    /\ cacheNodes = {}
    /\ observed = {}
    /\ lastNode = 0

\* ------------------------------------------------------------------ clock
\* d seconds pass; keys whose TTL has run out are gone (their slot reads 0)
Purge(key) == [k \in DOMAIN key |-> IF key[k] > now' THEN key[k] ELSE 0]

Tick(d) ==
    /\ ticks < MaxTicks
    /\ \A w \in EtlReplicas : etl[w].pc = "idle"
    /\ \A j \in Jtis : refreshing[j] = 0
    /\ now' = now + d
    /\ ticks' = ticks + 1
    /\ nonceKey' = Purge(nonceKey)
    /\ idemKey' = Purge(idemKey)
    /\ dedupKey' = Purge(dedupKey)
    /\ revokedKey' = Purge(revokedKey)
    /\ UNCHANGED <<kvUp, rejections, queue, storeVars, etlVars, authVars, reqCount,
                   last, lastAuth, gwHist, sideVars>>

\* ------------------------------------------------------ /api/ingest: action
MetricKey(p) == <<p.node_id, p.timestamp>>

SeqRange(sq) == {sq[i] : i \in 1..Len(sq)}

Ingest(r, pipeFault) ==
    /\ reqCount < MaxRequests
    /\ LET mw == Dispatch(r.bearer, "/api/ingest")
           res == IF mw.code # 0 THEN Result(mw.code, FALSE, FALSE, FALSE, <<>>)
                  ELSE ingest_batch(r, pipeFault)
           ik == IdempotencyKeyOf(r.batch_id)
           ok == res.code = 200
       IN  /\ nonceKey' = IF res.nonceSet
                          THEN [nonceKey EXCEPT ![r.nonce] = SetEx(NONCE_TTL_SEC)]
                          ELSE nonceKey
           /\ idemKey' = IF res.idemSet
                         THEN [idemKey EXCEPT ![ik] = SetEx(IDEMPOTENCY_TTL_SEC)]
                         ELSE idemKey
           /\ rejections' = IF res.rejected THEN rejections + 1 ELSE rejections
           /\ queue' = queue \o res.pushed
           /\ last' = [req |-> r, code |-> res.code, pushed |-> Len(res.pushed)]
           /\ acceptedAt' = IF ok THEN [acceptedAt EXCEPT ![ik] = now] ELSE acceptedAt
           /\ enqueuedTimes' = [k \in MetricKeys |->
                  enqueuedTimes[k] + Cardinality({i \in 1..Len(res.pushed) : MetricKey(res.pushed[i]) = k})]
           /\ enqueuedBatches' = [k \in MetricKeys |->
                  enqueuedBatches[k] + (IF \E i \in 1..Len(res.pushed) : MetricKey(res.pushed[i]) = k
                                        THEN 1 ELSE 0)]
    /\ reqCount' = reqCount + 1
    /\ UNCHANGED <<now, ticks, kvUp, dedupKey, revokedKey, storeVars, etlVars, authVars, lastAuth,
                   sideVars>>

\* --------------------------------------------- specification of the gateway
IngestStep == \E r \in IngestRequests, pipeFault \in BOOLEAN : Ingest(r, pipeFault)

ClockStep == \E d \in {300} : Tick(d)

InitGateway == Init /\ useCopy /\ dedupEnabled

NextGateway == IngestStep \/ ClockStep

SpecGateway == InitGateway /\ [][NextGateway]_vars


\* ------------------------------------------------------ claims on /api/ingest
\* the step is an /ingest request being served
IngestServed == reqCount' = reqCount + 1

\* the request just served was well-formed: parsable body, the federation
\* secret as bearer, and either no signing header at all or all four with a
\* fresh timestamp, an unused nonce and the right signature
WellFormed(r) ==
    /\ BodyParses(r.body)
    /\ r.bearer = SecretBearer
    /\ \/ r.sig.kind = "absent" /\ r.timestamp.kind = "absent" /\ r.nonce = NoHeader
       \/ /\ HmacBlockRuns(r)
          /\ TimestampVerdict(r.timestamp) = 0
          /\ ~Exists(nonceKey[r.nonce])
          /\ SignatureMatches(r)

\* C1: a well-formed /ingest request whose X-Batch-ID was accepted less than
\* 600 s earlier is answered 202 and pushes nothing onto the queue.
C1_SameBatchIdAnswered202 ==
    [][(/\ IngestServed
        /\ last'.req.batch_id # NoHeader
        /\ WellFormed(last'.req)
        /\ acceptedAt[last'.req.batch_id] >= 0
        /\ now - acceptedAt[last'.req.batch_id] < IDEMPOTENCY_TTL_SEC)
       => (last'.code = 202 /\ last'.pushed = 0 /\ queue' = queue)]_vars

\* C2: a request carrying X-Fiber-Signature and a nonce that the gateway
\* recorded less than 600 s earlier is answered 401 and enqueues nothing.
C2_ReplayedNonceRejected ==
    [][(/\ IngestServed
        /\ last'.req.sig.kind # "absent"
        /\ last'.req.nonce # NoHeader
        /\ Exists(nonceKey[last'.req.nonce]))
       => (last'.code = 401 /\ queue' = queue)]_vars

\* C3: a request carrying all four signing headers whose timestamp is more
\* than 300 s from the gateway's clock, or does not parse, is answered 401
\* and enqueues nothing.
C3_StaleTimestampRejected ==
    [][(/\ IngestServed
        /\ HmacBlockRuns(last'.req)
        /\ \/ last'.req.timestamp.kind = "garbage"
           \/ Abs(last'.req.timestamp.skew) > TIMESTAMP_WINDOW_SEC)
       => (last'.code = 401 /\ queue' = queue)]_vars

\* C4: a request carrying X-Fiber-Signature gets metrics enqueued only if the
\* signature is the HMAC of its batch id, timestamp, nonce and body and the
\* timestamp and nonce checks passed, whichever other headers are present.
C4_SignatureGatesEnqueue ==
    [][(/\ IngestServed
        /\ last'.req.sig.kind # "absent"
        /\ queue' # queue)
       => (/\ SignatureMatches(last'.req)
           /\ last'.req.timestamp.kind = "aware"
           /\ Abs(last'.req.timestamp.skew) <= TIMESTAMP_WINDOW_SEC
           /\ last'.req.nonce # NoHeader
           /\ ~Exists(nonceKey[last'.req.nonce]))]_vars


\* ============================================================== ETL worker
\* normalizer.py:44-64: the dict normalize_metric returns has the keys
\* node_id, country, region, the measurements, timestamp and metadata; the
\* gateway's _meta block is not among them.  to_timestamp(...).isoformat()
\* rewrites the timestamp string but keeps its wall time, fraction and offset.
normalize_metric(raw) ==
    [node_id |-> raw.node_id, country |-> raw.country, region |-> raw.region,
     timestamp |-> raw.timestamp]

\* normalizer.py:80-89
validate_metric(m) == m.node_id # ""

\* worker.py:187-196
RECURSIVE ParseAndValidate(_)
ParseAndValidate(raw_messages) ==
    IF raw_messages = <<>> THEN <<>>
    ELSE LET data == normalize_metric(Head(raw_messages))
         IN  (IF validate_metric(data) THEN <<data>> ELSE <<>>)
             \o ParseAndValidate(Tail(raw_messages))

\* worker.py:72-73: the dedup key is the node and the first 19 characters of
\* the timestamp string, i.e. the second as written, without fraction or offset
DedupKeyOf(m) == <<m.node_id, m.timestamp.wall>>

\* worker.py:67-90: SET key 1 NX EX 180 for every metric, in order; a metric
\* is kept iff its SET created the key.  Gives the kept metrics and the keys.
RECURSIVE DedupeFrom(_, _, _)
DedupeFrom(batch, keys, kept) ==
    IF batch = <<>> THEN [cleaned |-> kept, keys |-> keys]
    ELSE LET m == Head(batch)
             k == DedupKeyOf(m)
         IN  IF keys[k] > now
             THEN DedupeFrom(Tail(batch), keys, kept)
             ELSE DedupeFrom(Tail(batch), [keys EXCEPT ![k] = SetEx(DEDUP_TTL_SEC)],
                             Append(kept, m))

dedupe_batch(batch) ==
    IF ~dedupEnabled \/ batch = <<>> THEN [cleaned |-> batch, keys |-> dedupKey]
    ELSE DedupeFrom(batch, dedupKey, <<>>)

\* --------------------------------------------------------------- the store
\* the row INSERT/COPY writes for a metric (worker.py:244-252)
MetricsRow(m) == [time |-> Instant(m.timestamp), node_id |-> m.node_id]

\* (time, node_id): the conflict target of worker.py:272
RowKey(row) == <<row.time, row.node_id>>

TableKeys(table) == {RowKey(table[i]) : i \in 1..Len(table)}

RECURSIVE RowsOf(_)
RowsOf(ms) == IF ms = <<>> THEN <<>> ELSE <<MetricsRow(Head(ms))>> \o RowsOf(Tail(ms))

NoDuplicateKeys(rows) ==
    \A i, j \in 1..Len(rows) : i # j => RowKey(rows[i]) # RowKey(rows[j])

\* conn.copy_records_to_table('metrics', ...) (worker.py:255-259): all rows
\* go in, or the unique index on (time, node_id) raises UniqueViolationError
\* and none does
CopyRaisesUniqueViolation(table, records) ==
    ~NoDuplicateKeys(table \o records)

copy_records_to_table(table, records) ==
    IF CopyRaisesUniqueViolation(table, records) THEN table ELSE table \o records

\* INSERT ... ON CONFLICT (time, node_id) DO NOTHING (worker.py:269-276).
\* A statement issued after an error inside conn.transaction() finds the
\* transaction aborted and raises.
InsertStatus(table, row, aborted) ==
    IF aborted THEN "error"
    ELSE IF RowKey(row) \in TableKeys(table) THEN "INSERT 0 0" ELSE "INSERT 0 1"

\* worker.py:288  m.get('_meta', {}).get('source_region', 'unknown')
ConflictRegion(m) ==
    IF "meta" \in DOMAIN m THEN m.meta.source_region ELSE "unknown"

ConflictRow(m) ==
    [time |-> Instant(m.timestamp), node_id |-> m.node_id, ingest_region |-> ConflictRegion(m)]

\* worker.py:266-294: the row-by-row loop after UniqueViolationError
RECURSIVE AuditLoop(_, _, _, _)
AuditLoop(ms, table, audit, aborted) ==
    IF ms = <<>> THEN [metrics |-> table, conflicts |-> audit]
    ELSE LET m == Head(ms)
             status == InsertStatus(table, MetricsRow(m), aborted)
         IN  IF status = "INSERT 0 1"
             THEN AuditLoop(Tail(ms), Append(table, MetricsRow(m)), audit, aborted)
             ELSE IF status = "INSERT 0 0"
             THEN AuditLoop(Tail(ms), table, Append(audit, ConflictRow(m)), aborted)
             ELSE AuditLoop(Tail(ms), table, audit, aborted)

\* conn.executemany(INSERT ... ON CONFLICT DO NOTHING) (worker.py:303-314)
RECURSIVE InsertOrSkip(_, _)
InsertOrSkip(table, ms) ==
    IF ms = <<>> THEN table
    ELSE IF RowKey(MetricsRow(Head(ms))) \in TableKeys(table)
    THEN InsertOrSkip(table, Tail(ms))
    ELSE InsertOrSkip(Append(table, MetricsRow(Head(ms))), Tail(ms))

\* the same statement without its ON CONFLICT clause
executemany_NoConflictClause(table, ms) == table \o RowsOf(ms)

executemany(table, ms) == InsertOrSkip(table, ms)

\* the end of "async with conn.transaction()": COMMIT makes the block's
\* writes visible unless a statement failed in it, which rolls all of it back
Commit(before, after, aborted) == IF aborted THEN before ELSE after

\* worker.py:242-321, the insert step of one transaction.  storeFault: the
\* store raises something other than UniqueViolationError.
InsertMetrics(cleaned, storeFault) ==
    LET before == [metrics |-> metrics, conflicts |-> conflicts]
    IN  IF useCopy
        THEN IF storeFault THEN [tables |-> before, path |-> "failed"]
             ELSE IF CopyRaisesUniqueViolation(metrics, RowsOf(cleaned))
             THEN [tables |-> Commit(before, AuditLoop(cleaned, metrics, conflicts, TRUE), TRUE),
                   path |-> "fallback"]
             ELSE [tables |-> [metrics |-> copy_records_to_table(metrics, RowsOf(cleaned)),
                               conflicts |-> conflicts],
                   path |-> "copy"]
        ELSE IF storeFault THEN [tables |-> before, path |-> "failed"]
             ELSE [tables |-> [metrics |-> executemany(metrics, cleaned), conflicts |-> conflicts],
                   path |-> "executemany"]

RECURSIVE KeysOf(_)
KeysOf(ms) == IF ms = <<>> THEN <<>> ELSE <<MetricKey(Head(ms))>> \o KeysOf(Tail(ms))

Finished(w, path) == done' = [popped |-> etl[w].popped, path |-> path]

\* worker.py:154-199: the batch_pop script takes up to BATCH_SIZE entries off
\* the head of the queue in one step; they are parsed and validated
EtlPop(w) ==
    /\ etl[w].pc = "idle"
    /\ queue # <<>>
    /\ LET n == Min(BATCH_SIZE, Len(queue))
           raw_messages == SubSeq(queue, 1, n)
       IN  /\ queue' = SubSeq(queue, n + 1, Len(queue))
           /\ etl' = [etl EXCEPT ![w] = [pc |-> "popped", popped |-> KeysOf(raw_messages),
                                         batch |-> ParseAndValidate(raw_messages)]]
    /\ UNCHANGED <<now, ticks, kvUp, nonceKey, idemKey, dedupKey, revokedKey, rejections,
                   storeVars, useCopy, dedupEnabled, done, faulted, authVars, reqCount,
                   last, lastAuth, gwHist, sideVars>>

\* worker.py:201-205
EtlDedupe(w) ==
    /\ etl[w].pc = "popped"
    /\ LET d == dedupe_batch(etl[w].batch)
       IN  /\ dedupKey' = d.keys
           /\ IF d.cleaned = <<>>
              THEN /\ etl' = [etl EXCEPT ![w] = NoBatch]
                   /\ Finished(w, "all_duplicates")
              ELSE /\ etl' = [etl EXCEPT ![w] = [@ EXCEPT !.pc = "deduped", !.batch = d.cleaned]]
                   /\ UNCHANGED done
    /\ UNCHANGED <<now, ticks, kvUp, nonceKey, idemKey, revokedKey, rejections, queue,
                   storeVars, useCopy, dedupEnabled, faulted, authVars, reqCount, last,
                   lastAuth, gwHist, sideVars>>

\* worker.py:207-348: the store transaction
EtlStore(w, storeFault) ==
    /\ etl[w].pc = "deduped"
    /\ LET r == InsertMetrics(etl[w].batch, storeFault)
       IN  /\ metrics' = r.tables.metrics
           /\ conflicts' = r.tables.conflicts
           /\ Finished(w, r.path)
           /\ faulted' = (faulted \/ r.path = "failed")
    /\ etl' = [etl EXCEPT ![w] = NoBatch]
    /\ UNCHANGED <<now, ticks, kvVars, useCopy, dedupEnabled, authVars, reqCount, last,
                   lastAuth, gwHist, sideVars>>

\* the worker dies with a batch in hand (worker.py:397-402: an exception that
\* escapes process_batch ends main) and is started again
EtlCrash(w) ==
    /\ etl[w].pc # "idle"
    /\ etl' = [etl EXCEPT ![w] = NoBatch]
    /\ Finished(w, "crashed")
    /\ faulted' = TRUE
    /\ UNCHANGED <<now, ticks, kvVars, storeVars, useCopy, dedupEnabled, authVars, reqCount,
                   last, lastAuth, gwHist, sideVars>>

\* ------------------------------------------- specification of the pipeline
ProbeIngest == \E r \in ProbeRequests : Ingest(r, FALSE)

EtlClock == \E d \in {120} : Tick(d)

NextPipeline ==
    \/ ProbeIngest
    \/ EtlClock
    \/ \E w \in EtlReplicas : EtlPop(w)
    \/ \E w \in EtlReplicas : EtlDedupe(w)
    \/ \E w \in EtlReplicas, storeFault \in BOOLEAN : EtlStore(w, storeFault)
    \/ \E w \in EtlReplicas : EtlCrash(w)

SpecPipeline == Init /\ [][NextPipeline]_vars

\* --------------------------------------------------------- pipeline claims
StoreKey(k) == <<Instant(k[2]), k[1]>>

RowsFor(table, k) == Cardinality({i \in 1..Len(table) : RowKey(table[i]) = StoreKey(k)})

Drained == queue = <<>> /\ \A w \in EtlReplicas : etl[w].pc = "idle"

\* some replica has just left its store transaction
StoreEnded == \E w \in EtlReplicas : etl[w].pc = "deduped" /\ etl'[w].pc = "idle"

\* some replica has just ended a process_batch call for a batch it had popped
BatchEnded == \E w \in EtlReplicas : etl[w].pc # "idle" /\ etl'[w].pc = "idle"

Recorded(k) == StoreKey(k) \in TableKeys(metrics) \cup TableKeys(conflicts)

C6_SecondArrivalAudited ==
    \A k \in MetricKeys :
        (Drained /\ ~faulted /\ enqueuedBatches[k] >= 2)
            => (RowsFor(metrics, k) = 1 /\ RowsFor(conflicts, k) = 1)

\* C7: when a process_batch call ends, by a crash and a failed transaction
\* included, every metric it had popped is recorded in metrics or in
\* metric_conflicts, or is back where a later call will find it
C7_PoppedMetricsNotLost ==
    [][BatchEnded =>
          \A k \in MetricKeys :
             (\E i \in 1..Len(done'.popped) : done'.popped[i] = k) =>
                \/ Recorded(k)'
                \/ \E j \in 1..Len(queue') : MetricKey(queue'[j]) = k]_vars

\* C8: when the store rejects the bulk copy of a popped batch, the queue is
\* shorter by the batch and every metric of the batch is afterwards a row of
\* metrics or of metric_conflicts
C8_RejectedCopyFallsBack ==
    [][(StoreEnded /\ useCopy /\ done'.path \in {"fallback", "failed"}) =>
          \A k \in MetricKeys :
             (\E i \in 1..Len(done'.popped) : done'.popped[i] = k) => Recorded(k)']_vars


\* ========================================================== token lifecycle
RECURSIVE SumOver(_, _)
SumOver(f, S) ==
    IF S = {} THEN 0
    ELSE LET x == CHOOSE y \in S : TRUE IN f[x] + SumOver(f, S \ {x})

\* /auth/refresh calls that have passed the revocation check and not yet revoked
Inflight == SumOver(refreshing, Jtis)

\* jtis left for n more token pairs (uuid4 never runs out; the model's do)
HasRoom(n) == nextJti + 2 * n - 1 <= 2 * MaxTokens

\* auth.py:49-84: a fresh access token and a fresh refresh token for username
issue_tokens(username) ==
    {AccessToken(nextJti, username), RefreshToken(nextJti + 1, username)}

\* what the handlers below leave alone
NotAuthState ==
    UNCHANGED <<now, ticks, nonceKey, idemKey, dedupKey, rejections, queue, storeVars, etlVars,
                last, gwHist, sideVars>>

\* routes.py:970-990  POST /api/auth/login (a public path).  The 5-per-minute
\* limit is out of reach of MaxAuthRequests requests.
Login(username, password_ok) ==
    /\ reqCount < MaxAuthRequests
    /\ HasRoom(Inflight + 1)
    /\ reqCount' = reqCount + 1
    /\ IF ~kvUp
       THEN /\ lastAuth' = AuthRequest("login", NoBearer, "/api/auth/login", NoBearer, 500)
            /\ UNCHANGED <<issued, nextJti>>
       ELSE IF ~password_ok
       THEN /\ lastAuth' = AuthRequest("login", NoBearer, "/api/auth/login", NoBearer, 401)
            /\ UNCHANGED <<issued, nextJti>>
       ELSE /\ issued' = issued \cup issue_tokens(username)
            /\ nextJti' = nextJti + 2
            /\ lastAuth' = AuthRequest("login", NoBearer, "/api/auth/login", NoBearer, 200)
    /\ UNCHANGED <<kvUp, revokedKey, refreshing, rotated, everRevoked>>
    /\ NotAuthState

\* auth.py:94-112: rotate_refresh_token up to and including the revocation
\* check; 0 when the token goes on to be rotated.  The route turns an error of
\* the kv-store into 401 (routes.py:1000-1002).
RotateCheck(rt) ==
    IF ~verify_token_claims(rt) THEN 401
    ELSE IF rt.type # "refresh" THEN 401
    ELSE IF ~kvUp THEN 401
    ELSE IF is_jti_revoked(rt.jti) THEN 401
    ELSE 0

\* POST /api/auth/refresh arrives: middleware, then rotate_refresh_token as
\* far as its "await revoke_jti"
RefreshBegin(rt, bearer) ==
    /\ reqCount < MaxAuthRequests
    /\ HasRoom(Inflight + 1)
    /\ reqCount' = reqCount + 1
    /\ LET mw == Dispatch(bearer, "/api/auth/refresh")
           code == IF mw.code # 0 THEN mw.code ELSE RotateCheck(rt)
       IN  /\ lastAuth' = AuthRequest("refresh", bearer, "/api/auth/refresh", rt, code)
           /\ refreshing' = IF code = 0 THEN [refreshing EXCEPT ![rt.jti] = @ + 1]
                            ELSE refreshing
    /\ UNCHANGED <<kvUp, revokedKey, issued, nextJti, rotated, everRevoked>>
    /\ NotAuthState

\* auth.py:114-122: the old jti is revoked, then the new pair is issued
RefreshEnd(rt) ==
    /\ rt \in issued
    /\ refreshing[rt.jti] > 0
    /\ refreshing' = [refreshing EXCEPT ![rt.jti] = @ - 1]
    /\ IF ~kvUp
       THEN /\ lastAuth' = AuthRequest("rotated", NoBearer, "/api/auth/refresh", rt, 401)
            /\ UNCHANGED <<revokedKey, issued, nextJti, rotated, everRevoked>>
       ELSE /\ revokedKey' = revoke_jti(revokedKey, rt.jti, RemainingLifetime(rt.exp))
            /\ everRevoked' = everRevoked \cup {rt.jti}
            /\ issued' = issued \cup issue_tokens(rt.sub)
            /\ nextJti' = nextJti + 2
            /\ rotated' = rotated \cup {rt.jti}
            /\ lastAuth' = AuthRequest("rotated", NoBearer, "/api/auth/refresh", rt, 200)
    /\ UNCHANGED <<kvUp, reqCount>>
    /\ NotAuthState

\* routes.py:1004-1014  POST /api/auth/logout
Logout(bearer) ==
    /\ reqCount < MaxAuthRequests
    /\ reqCount' = reqCount + 1
    /\ LET mw == Dispatch(bearer, "/api/auth/logout")
           revokes == mw.code = 0 /\ mw.user.jti # -1
           code == IF mw.code # 0 THEN mw.code
                   ELSE IF revokes /\ ~kvUp THEN 500 ELSE 200
       IN  /\ lastAuth' = AuthRequest("logout", bearer, "/api/auth/logout", NoBearer, code)
           /\ IF revokes /\ kvUp
              THEN /\ revokedKey' = revoke_jti(revokedKey, mw.user.jti,
                                               RemainingLifetime(mw.user.exp))
                   /\ everRevoked' = everRevoked \cup {mw.user.jti}
              ELSE UNCHANGED <<revokedKey, everRevoked>>
    /\ UNCHANGED <<kvUp, issued, nextJti, refreshing, rotated>>
    /\ NotAuthState

\* a request to a route that reads only: what the middleware answers
\* (middleware.py:28-137), 0 when it hands the request on
ReadPaths == {"/api/metrics", "/api/status"}

ApiRequest(bearer, path) ==
    /\ reqCount < MaxAuthRequests
    /\ reqCount' = reqCount + 1
    /\ lastAuth' = AuthRequest("api", bearer, path, NoBearer, Dispatch(bearer, path).code)
    /\ UNCHANGED <<kvUp, revokedKey, authVars>>
    /\ NotAuthState

\* the kv-store stops answering / answers again
KvOutage ==
    /\ kvUp
    /\ kvUp' = FALSE
    /\ UNCHANGED <<revokedKey, authVars, reqCount, lastAuth>>
    /\ NotAuthState

KvRecover ==
    /\ ~kvUp
    /\ kvUp' = TRUE
    /\ UNCHANGED <<revokedKey, authVars, reqCount, lastAuth>>
    /\ NotAuthState

\* ----------------------------------------------- specification of the tokens
Bearers == issued \cup {NoBearer, SecretBearer, GarbageBearer}

AccessBearers == {t \in issued : t.type = "access"} \cup {NoBearer}

LoginNames == {"admin"}

AuthClock == \E d \in {300, JWT_REFRESH_EXPIRY_DAYS * 86400} : Tick(d)

InitAuth == Init /\ useCopy /\ dedupEnabled

NextAuth ==
    \/ \E u \in LoginNames, password_ok \in BOOLEAN : Login(u, password_ok)
    \/ \E rt \in issued \cup {GarbageBearer}, bearer \in AccessBearers : RefreshBegin(rt, bearer)
    \/ \E rt \in issued : RefreshEnd(rt)
    \/ \E bearer \in Bearers : Logout(bearer)
    \/ \E bearer \in Bearers, path \in ReadPaths : ApiRequest(bearer, path)
    \/ KvOutage
    \/ KvRecover
    \/ AuthClock

SpecAuth == InitAuth /\ [][NextAuth]_vars

\* ------------------------------------------------------------ token claims
\* a request has just been taken up; lastAuth' describes it
Served == reqCount' = reqCount + 1

\* rt is a refresh token this gateway issued, unexpired and not on the denylist
ValidRefreshToken(rt) ==
    /\ rt \in issued
    /\ rt.type = "refresh"
    /\ rt.exp > now
    /\ rt.jti \notin everRevoked

BearsRevokedToken ==
    /\ Served
    /\ lastAuth'.bearer \in issued
    /\ lastAuth'.bearer.jti \in everRevoked
    /\ now < lastAuth'.bearer.exp
    /\ lastAuth'.path \notin PUBLIC_PATHS

\* a denylist entry is there until 300 s after the expiry of its token
DenylistOutlivesToken ==
    \A t \in issued :
        (t.jti \in everRevoked /\ now < t.exp + REVOKE_SKEW_SEC)
            => revokedKey[t.jti] = t.exp + REVOKE_SKEW_SEC

MaxPushRequests == 6

HEALTH_STREAK_TO_RECOVER == 5

\* a limiter that keeps its streak through an error
record_health_KeepsStreak(state, streak, success) ==
    IF success
    THEN IF state = "local" /\ streak + 1 >= HEALTH_STREAK_TO_RECOVER
         THEN [state |-> "distributed", streak |-> 0]
         ELSE [state |-> state, streak |-> streak + 1]
    ELSE [state |-> "local", streak |-> streak]

\* RateLimiter.record_health
record_health(state, streak, success) ==
    IF success
    THEN IF state = "local" /\ streak + 1 >= HEALTH_STREAK_TO_RECOVER
         THEN [state |-> "distributed", streak |-> 0]
         ELSE [state |-> state, streak |-> streak + 1]
    ELSE [state |-> "local", streak |-> 0]

\* LeakyBucket.consume(1): refill for the time elapsed, then take one token
Refilled(bucket) ==
    Min(RATE_LIMIT_LOCAL_RATE,
        bucket.tokens + (now - bucket.last_update) * RATE_LIMIT_LOCAL_RATE)

\* the limiter's verdict and the state it leaves: code 0 lets the route go on
Verdict(code, policy, retry_after, allowed, via, health, sha, cached, buckets) ==
    [code |-> code, policy |-> policy, retry_after |-> retry_after, allowed |-> allowed,
     via |-> via, state |-> health.state, streak |-> health.streak, sha |-> sha,
     cached |-> cached, buckets |-> buckets]

\* RateLimiter.check_local after the kv-store part left the limiter in health
check_local(key, allowed, via, health, sha, cached) ==
    LET tokens == Refilled(local_buckets[key])
        ok == tokens >= 1
        bucket == [tokens |-> IF ok THEN tokens - 1 ELSE tokens, last_update |-> now]
    IN Verdict(IF ok THEN 0 ELSE 429, "local", FALSE, allowed, via, health, sha, cached,
               [local_buckets EXCEPT ![key] = bucket])

\* the first evalsha answered: 429 with Retry-After when the script refused
FirstCallVerdict(key, allowed, health, sha, cached) ==
    IF health.state = "distributed"
    THEN Verdict(IF allowed = 0 THEN 429 ELSE 0, "distributed", allowed = 0, allowed,
                 "first", health, sha, cached, local_buckets)
    ELSE check_local(key, allowed, "first", health, sha, cached)

\* the evalsha after script_load answered: the headers are returned whatever
\* the script said
RetryVerdict(key, allowed, health, sha, cached) ==
    IF health.state = "distributed"
    THEN Verdict(0, "distributed", FALSE, allowed, "retry", health, sha, cached,
                 local_buckets)
    ELSE check_local(key, allowed, "retry", health, sha, cached)

\* RateLimiter.check_ingest for the caller user; allowed is what the
\* token-bucket script answers if it is run, retryFault a connection lost
\* between the NOSCRIPT error and script_load.  The global guard (200
\* requests a second) is out of reach of the requests made here.
check_ingest(user, allowed, retryFault) ==
    LET key == user.username
        healthy == record_health(limiterState, redis_health_streak, TRUE)
        failed == record_health(limiterState, redis_health_streak, FALSE)
    IN IF ~kvUp
       THEN check_local(key, -1, "none", failed, script_sha, scriptCached)
       ELSE IF ~script_sha \/ scriptCached
       THEN FirstCallVerdict(key, allowed, healthy, TRUE, TRUE)
       ELSE IF retryFault
       THEN check_local(key, -1, "none", failed, script_sha, scriptCached)
       ELSE RetryVerdict(key, allowed, healthy, TRUE, TRUE)


\* -------------------------------------------------------------- /api/push
\* what the /api/push steps leave alone
NotPushState ==
    UNCHANGED <<now, ticks, kvUp, nonceKey, idemKey, dedupKey, revokedKey, rejections,
                storeVars, etlVars, authVars, reqCount, last, lastAuth, gwHist, auditVars,
                bufferVars, clockVars, failoverVars, clientVars, extVars>>

\* AuthMiddleware.dispatch for POST /api/push: its own answer, or the request
\* handed on to the route with request.state.user set
PushBegin(bearer) ==
    /\ pushCount < MaxPushRequests
    /\ ~pushing.active
    /\ pushCount' = pushCount + 1
    /\ LET mw == Dispatch(bearer, "/api/push")
       IN IF mw.code # 0
          THEN /\ lastPush' = PushResponse(bearer, mw.code, "", FALSE, -1, "none", FALSE)
               /\ UNCHANGED pushing
          ELSE /\ pushing' = [active |-> TRUE, user |-> mw.user, bearer |-> bearer,
                               failedOpen |-> verify_token_claims(bearer) /\ ~kvUp]
               /\ UNCHANGED lastPush
    /\ UNCHANGED <<queue, limiterVars, okRun>>
    /\ NotPushState

\* require_auth
require_auth(user) == IF user.role = "ANONYMOUS" THEN 401 ELSE 0

\* the middleware copies request.state.ratelimit_headers onto the response of
\* a request that bore a JWT; a 429 carries the headers of its HTTPException
ResponsePolicy(bearer, verdict) ==
    IF verdict.code = 429 \/ bearer.kind = "jwt" THEN verdict.policy ELSE ""

\* push_metrics behind require_auth: the limiter, then LPUSH of the batch
PushEnd(allowed, retryFault) ==
    /\ pushing.active
    /\ pushing' = NoPush
    /\ IF require_auth(pushing.user) # 0
       THEN /\ lastPush' = PushResponse(pushing.bearer, 401, "", FALSE, -1, "none", FALSE)
            /\ UNCHANGED <<queue, limiterVars, okRun>>
       ELSE LET v == check_ingest(pushing.user, allowed, retryFault)
                code == IF v.code # 0 THEN v.code ELSE IF kvUp THEN 202 ELSE 503
            IN /\ lastPush' = PushResponse(pushing.bearer, code,
                                           ResponsePolicy(pushing.bearer, v),
                                           v.retry_after, v.allowed, v.via,
                                           pushing.failedOpen)
               /\ limiterState' = v.state
               /\ redis_health_streak' = v.streak
               /\ script_sha' = v.sha
               /\ scriptCached' = v.cached
               /\ local_buckets' = v.buckets
               /\ okRun' = IF v.via = "none" THEN 0 ELSE okRun + 1
               /\ queue' = IF code = 202 THEN ParsedBody("A").metrics \o queue ELSE queue
    /\ UNCHANGED pushCount
    /\ NotPushState

\* the kv-store forgets its script cache (SCRIPT FLUSH, a restart)
ScriptFlush ==
    /\ scriptCached
    /\ scriptCached' = FALSE
    /\ UNCHANGED <<queue, limiterState, redis_health_streak, script_sha, local_buckets,
                   pushVars>>
    /\ NotPushState

\* ------------------------------------- specification of the /api/push route
PushBearers == {t \in issued : t.type = "access"} \cup {NoBearer, SecretBearer}

NextPush ==
    \/ \E bearer \in PushBearers \ {NoBearer, SecretBearer} : PushBegin(bearer)
    \/ \E allowed \in {0, 1}, retryFault \in BOOLEAN : PushEnd(allowed, retryFault)
    \/ ScriptFlush
    \/ KvOutage
    \/ KvRecover
    \/ issued = {} /\ Login("admin", TRUE)

SpecPush == InitAuth /\ [][NextPush]_vars

\* --------------------------- specification of the gateway in a kv-store outage
MaxOutagePushes == 2

\* paths outside PUBLIC_PATHS
GuardedPaths ==
    {"/api/metrics", "/api/nodes", "/api/auth/logout", "/api/auth/refresh", "/api/ingest",
     "/api/push"}

OutagePaths == {"/api/metrics", "/api/nodes", "/api/status"}

NextOutage ==
    \/ issued = {} /\ Login("admin", TRUE)
    \/ \E bearer \in PushBearers : Logout(bearer)
    \/ \E bearer \in PushBearers, path \in OutagePaths : ApiRequest(bearer, path)
    \/ \E bearer \in PushBearers : pushCount < MaxOutagePushes /\ PushBegin(bearer)
    \/ PushEnd(1, FALSE)
    \/ KvOutage
    \/ KvRecover

SpecOutage == InitAuth /\ [][NextOutage]_vars


\* ------------------------------------------------------ kv-store outage claim
\* the identity the middleware gives a verified token
TokenUser(tok) ==
    [username |-> tok.sub, role |-> get_user_role(tok.sub), jti |-> tok.jti, exp |-> tok.exp]

\* with the kv-store away, the middleware answers a verified token 503 on
\* every guarded path but /api/push, where it hands the request on as the
\* token's user
OutageVerdicts ==
    \A tok \in issued, path \in GuardedPaths :
        (verify_token_claims(tok) /\ ~kvUp) =>
            IF path = "/api/push"
            THEN Dispatch(tok, path) = [code |-> 0, user |-> TokenUser(tok)]
            ELSE Dispatch(tok, path).code = 503

\* a request outside /api/push that bore a verified token during the outage
\* was answered 503 and revoked nothing
OutageAnswered503 ==
    (Served /\ ~kvUp /\ verify_token_claims(lastAuth'.bearer)
       /\ lastAuth'.path \notin PUBLIC_PATHS)
        => lastAuth'.code = 503 /\ revokedKey' = revokedKey /\ issued' = issued

\* a push that bore a verified token during the outage was handed on to the
\* route as that token's user
OutagePushHandedOn ==
    (pushCount' = pushCount + 1 /\ ~kvUp) =>
        /\ ~pushing'.active => ~verify_token_claims(lastPush'.bearer)
        /\ (pushing'.active /\ pushing'.bearer.kind = "jwt") =>
               /\ pushing'.failedOpen
               /\ pushing'.user = TokenUser(pushing'.bearer)
               /\ pushing'.user.role # "ANONYMOUS"

\* the route then treats it as authenticated: never 401, and the batch is
\* queued once the kv-store answers again
FailedOpenPushServed ==
    (pushing.active /\ pushing.failedOpen /\ ~pushing'.active) =>
        /\ lastPush'.code \in {202, 429, 503}
        /\ (kvUp /\ lastPush'.code # 429) =>
               lastPush'.code = 202 /\ Len(queue') = Len(queue) + 1

LimiterRan == pushing.active /\ ~pushing'.active /\ require_auth(pushing.user) = 0

\* its kv-store check failed: the script gave no answer
KvCheckFailed == LimiterRan /\ lastPush'.via = "none"

KvCheckSucceeded == LimiterRan /\ lastPush'.via # "none"

C19_RefusedByScriptAnswered429 ==
    [][(LimiterRan /\ limiterState' = "distributed" /\ lastPush'.allowed = 0) =>
           lastPush'.code = 429 /\ lastPush'.retry_after]_vars


\* --------------------------------------------------------------- audit log
MaxAuditCalls == 4

AuditActions == <<"LOGIN_FAILED", "LOGIN_SUCCESS", "DELETE_NODE", "CREATE_NODE">>

ActionCode(action) == CHOOSE i \in 1..Len(AuditActions) : AuditActions[i] = action

\* _compute_hash: SHA-256 of the entry (its prev_hash included) and prev_hash,
\* here the tuple of what went into it: equal only for equal inputs
compute_hash(entry, prev_hash) == <<ActionCode(entry.action), entry.prev_hash, prev_hash>>

AuditEntry(action, prev_hash) ==
    LET entry == [action |-> action, prev_hash |-> prev_hash]
    IN [action |-> action, prev_hash |-> prev_hash, hash |-> compute_hash(entry, prev_hash)]

\* audit_log: the entry chains to _last_hash, _last_hash moves on, and only
\* then is the line appended; a failed write is logged and swallowed
audit_log(action, writeFails) ==
    /\ auditCalls < MaxAuditCalls
    /\ auditCalls' = auditCalls + 1
    /\ LET entry == AuditEntry(action, last_hash)
       IN /\ last_hash' = entry.hash
          /\ auditFile' = IF writeFails THEN auditFile ELSE Append(auditFile, entry)
    /\ UNCHANGED <<now, ticks, kvVars, storeVars, etlVars, authVars, reqCount, last, lastAuth,
                   gwHist, limiterVars, pushVars, bufferVars, clockVars, failoverVars,
                   clientVars, extVars>>

\* the gateway process starts again: the module is loaded anew, the file stays
Restart ==
    /\ last_hash # GENESIS
    /\ last_hash' = GENESIS
    /\ UNCHANGED <<now, ticks, kvVars, storeVars, etlVars, authVars, reqCount, last, lastAuth,
                   gwHist, limiterVars, pushVars, bufferVars, clockVars, failoverVars,
                   clientVars, extVars, auditFile, auditCalls>>

\* verify_audit_chain from line i on: 0 when the chain holds, else the line
\* at which it breaks
RECURSIVE VerifyFrom(_, _, _)
VerifyFrom(file, i, prev_hash) ==
    IF i > Len(file) THEN 0
    ELSE IF file[i].prev_hash # prev_hash THEN i
    ELSE IF file[i].hash # compute_hash([action |-> file[i].action,
                                         prev_hash |-> file[i].prev_hash], prev_hash) THEN i
    ELSE VerifyFrom(file, i + 1, file[i].hash)

\* verify_audit_chain: (True, None) is <<TRUE, 0>>
verify_audit_chain(file) ==
    LET break_at == VerifyFrom(file, 1, GENESIS)
    IN <<break_at = 0, break_at>>

NextAudit ==
    \/ \E i \in 1..Len(AuditActions), writeFails \in BOOLEAN :
           audit_log(AuditActions[i], writeFails)
    \/ Restart

SpecAudit == InitAuth /\ [][NextAudit]_vars

\* ---------------------------------------------------------- audit log claim
\* C12: after any sequence of audit_log calls by one writer, restarts and
\* failed writes included, the first entry's prev_hash is GENESIS, every
\* entry's prev_hash is the hash of the entry before it, and
\* verify_audit_chain returns (True, None)
C12_AuditChainUnbroken ==
    /\ \A i \in 1..Len(auditFile) :
           auditFile[i].prev_hash = IF i = 1 THEN GENESIS ELSE auditFile[i - 1].hash
    /\ verify_audit_chain(auditFile) = <<TRUE, 0>>


\* --------------------------------------------------- probe: durable buffer
\* the quota of the buffer in payload bytes, the rows a peek takes and the
\* metrics the producer collects, all scaled down (100 MiB and 50 in the
\* probe); every payload weighs one byte here
MaxBufferBytes == 10

PeekLimit == 2

MaxProduced == 12

Row(id, data, corrupt) == [id |-> id, data |-> data, corrupt |-> corrupt]

\* SELECT ... ORDER BY id DESC LIMIT n
RECURSIVE OrderByIdDesc(_, _)
OrderByIdDesc(rows, n) ==
    IF rows = {} \/ n = 0 THEN <<>>
    ELSE LET r == CHOOSE x \in rows : \A y \in rows : y.id <= x.id
         IN <<r>> \o OrderByIdDesc(rows \ {r}, n - 1)

\* SELECT ... ORDER BY id ASC LIMIT n
RECURSIVE OrderByIdAsc(_, _)
OrderByIdAsc(rows, n) ==
    IF rows = {} \/ n = 0 THEN <<>>
    ELSE LET r == CHOOSE x \in rows : \A y \in rows : x.id <= y.id
         IN <<r>> \o OrderByIdAsc(rows \ {r}, n - 1)

\* DurableBuffer._drop_oldest: a tenth of the rows, the oldest, rounded down
drop_oldest(rows) == rows \ SeqRange(OrderByIdAsc(rows, Cardinality(rows) \div 10))

\* DurableBuffer.push: evict when the quota would be passed, then insert
BufferPush(metric) ==
    LET kept == IF Cardinality(bufRows) + 1 > MaxBufferBytes THEN drop_oldest(bufRows)
                ELSE bufRows
    IN /\ bufRows' = kept \cup {Row(nextRowId, metric, FALSE)}
       /\ nextRowId' = nextRowId + 1

NotBufferState ==
    UNCHANGED <<now, ticks, kvVars, storeVars, etlVars, authVars, reqCount, last, lastAuth,
                gwHist, limiterVars, pushVars, auditVars, clockVars, failoverVars, clientVars,
                extVars>>

\* producer: collect a metric and push it into the buffer
Produce ==
    /\ produced < MaxProduced
    /\ produced' = produced + 1
    /\ BufferPush(produced + 1)
    /\ UNCHANGED <<consumerPc, peeked, pushOk>>
    /\ NotBufferState

\* DurableBuffer.peek_batch: the window, the rows of it that parse, and the
\* table without the rows of it that do not
peek_batch_NewestFirst(rows, limit) ==
    LET window == OrderByIdDesc(rows, limit)
    IN [results |-> SelectSeq(window, LAMBDA r : ~r.corrupt),
        rows |-> rows \ {r \in SeqRange(window) : r.corrupt}]

peek_batch(rows, limit) ==
    LET window == OrderByIdAsc(rows, limit)
    IN [results |-> SelectSeq(window, LAMBDA r : ~r.corrupt),
        rows |-> rows \ {r \in SeqRange(window) : r.corrupt}]

\* DurableBuffer.acknowledge: DELETE FROM queue WHERE id IN ids
acknowledge(rows, ids) == {r \in rows : r.id \notin ids}

Ids(items) == {items[i].id : i \in 1..Len(items)}

\* consumer, a batch with every row acknowledged whatever the controller said
AfterPush_AlwaysAck(rows, items, success) == acknowledge(rows, Ids(items))

\* consumer, main.py:208-213: acknowledge on success, else leave and back off
AfterPush(rows, items, success) ==
    IF success THEN acknowledge(rows, Ids(items)) ELSE rows

\* consumer: peek a batch; an empty one is slept on
ConsumerPeek ==
    /\ consumerPc = "idle"
    /\ bufRows # {}
    /\ LET pk == peek_batch(bufRows, PeekLimit)
       IN /\ bufRows' = pk.rows
          /\ peeked' = pk.results
          /\ consumerPc' = IF pk.results = <<>> THEN "idle" ELSE "pushing"
    /\ UNCHANGED <<nextRowId, produced, pushOk>>
    /\ NotBufferState

\* consumer: controller.push has returned (or raised, which counts as failure)
ConsumerDone(success) ==
    /\ consumerPc = "pushing"
    /\ consumerPc' = "idle"
    /\ pushOk' = success
    /\ bufRows' = AfterPush(bufRows, peeked, success)
    /\ UNCHANGED <<nextRowId, produced, peeked>>
    /\ NotBufferState

\* a stored payload stops being valid JSON (a damaged page of the database)
Corrupt ==
    /\ \A r \in bufRows : ~r.corrupt
    /\ \E r \in bufRows : bufRows' = (bufRows \ {r}) \cup {Row(r.id, r.data, TRUE)}
    /\ UNCHANGED <<nextRowId, produced, consumerPc, peeked, pushOk>>
    /\ NotBufferState

NextBuffer ==
    \/ Produce
    \/ ConsumerPeek
    \/ \E success \in BOOLEAN : ConsumerDone(success)
    \/ Corrupt

SpecBuffer == InitAuth /\ [][NextBuffer]_vars


\* --------------------------------------------------- durable buffer claims
StoredIds == {r.id : r \in bufRows}

\* C13: metrics leave the buffer for the transport in insertion order: a
\* peeked batch is in ascending id, which is the order the metrics were
\* collected in, and no row still stored is older than a row of the batch
\* without being in it
C13_PeekedBatchIsOldestFirst ==
    /\ \A r1, r2 \in bufRows : r1.id < r2.id <=> r1.data < r2.data
    /\ consumerPc = "pushing" =>
           /\ \A i, j \in 1..Len(peeked) :
                  i < j => peeked[i].id < peeked[j].id /\ peeked[i].data < peeked[j].data
           /\ \A r \in bufRows : \A i \in 1..Len(peeked) :
                  r.id < peeked[i].id => r.id \in Ids(peeked)

\* a full batch is on its way while newer rows wait behind it
C13_Witness ==
    /\ consumerPc = "pushing" /\ Len(peeked) = PeekLimit
    /\ Ids(peeked) \subseteq StoredIds
    /\ \E r \in bufRows : \A i \in 1..Len(peeked) : r.id > peeked[i].id

RemovedIds == StoredIds \ {r.id : r \in bufRows'}

ConsumerFinished == consumerPc = "pushing" /\ consumerPc' = "idle"

\* C14: when the controller reports failure for a peeked batch the consumer
\* deletes none of its rows and a later peek offers them again; a row leaves
\* the buffer only by acknowledge after a successful push, by quota
\* eviction, or by the purge of a corrupt row
C14_FailedBatchStaysQueued ==
    [][/\ (ConsumerFinished /\ ~pushOk') => bufRows' = bufRows
       /\ (consumerPc = "idle" /\ consumerPc' = "pushing" /\ ~pushOk) =>
              \A i \in 1..Len(peeked) :
                  (\E r \in bufRows' : r.id = peeked[i].id /\ ~r.corrupt)
                      => peeked[i].id \in Ids(peeked')
       /\ RemovedIds # {} =>
              \/ ConsumerFinished /\ pushOk' /\ RemovedIds \subseteq Ids(peeked)
              \/ /\ produced' = produced + 1
                 /\ Cardinality(bufRows) + 1 > MaxBufferBytes
                 /\ \A id \in RemovedIds : \A r \in bufRows' : r.id > id
              \/ /\ consumerPc = "idle" /\ produced' = produced
                 /\ \A r \in bufRows : r.id \in RemovedIds => r.corrupt]_vars

\* the batch that failed is on its way again, all its rows still stored
C14_Witness ==
    /\ ~pushOk /\ consumerPc = "pushing" /\ peeked # <<>>
    /\ Ids(peeked) \subseteq StoredIds
    /\ produced = nextRowId - 1


\* ------------------------------------------------ probe: failover controller
MaxControllerPushes == 6

MaxProbeTicks == 3

\* the controller's clients, sorted by priority: 0 is the primary, 1 a secondary
Targets == 0..1

NotProbeState ==
    UNCHANGED <<now, ticks, kvVars, storeVars, etlVars, authVars, reqCount, last, lastAuth,
                gwHist, limiterVars, pushVars, auditVars, bufferVars, extVars>>

\* time passes on the probe
ProbeTick(d) ==
    /\ probeTicks < MaxProbeTicks
    /\ probeTicks' = probeTicks + 1
    /\ mono' = mono + d
    /\ UNCHANGED <<failoverVars, clientVars>>
    /\ NotProbeState

\* a promotion check that ignores the success count and the cooldown
can_promote_Always(successes, t) == TRUE

\* _can_promote at the instant t
can_promote(successes, t) == successes >= PROMOTION_THRESHOLD /\ t > cooldown_until

\* _try_fallback's loop: the first target other than the active one whose
\* push succeeds, in priority order (-1: none)
FirstFallback(ok) ==
    LET able == {i \in Targets : i # active_index /\ ok[i]}
    IN IF able = {} THEN -1 ELSE CHOOSE i \in able : \A j \in able : i <= j

\* FailoverController.push; ok[i] is what _try_push returns for target i if
\* it is tried.  The sleep before the fallback takes backoff_sec (jitter 1.0).
ControllerPush(ok) ==
    /\ ctlPushes < MaxControllerPushes
    /\ ctlPushes' = ctlPushes + 1
    /\ IF ok[active_index]
       THEN LET promote == active_index > 0 /\ can_promote(ctlSuccesses + 1, mono)
            IN /\ ctlSuccesses' = IF promote THEN 0 ELSE ctlSuccesses + 1
               /\ ctlFailures' = 0
               /\ backoff_sec' = INITIAL_BACKOFF
               /\ active_index' = IF promote THEN 0 ELSE active_index
               /\ lastCtl' = [success |-> TRUE, active |-> active_index]
               /\ UNCHANGED <<cooldown_until, mono, failoverAt, failoverTo>>
       ELSE LET to == FirstFallback(ok)
                t == mono + backoff_sec
            IN /\ ctlFailures' = ctlFailures + 1
               /\ mono' = t
               /\ IF to = -1
                  THEN /\ backoff_sec' = Min(backoff_sec * 2, MAX_BACKOFF)
                       /\ ctlSuccesses' = 0
                       /\ lastCtl' = [success |-> FALSE, active |-> -1]
                       /\ UNCHANGED <<active_index, cooldown_until, failoverAt, failoverTo>>
                  ELSE /\ active_index' = to
                       /\ cooldown_until' = t + STICKINESS_SEC
                       /\ ctlSuccesses' = 0
                       /\ backoff_sec' = INITIAL_BACKOFF
                       /\ lastCtl' = [success |-> TRUE, active |-> to]
                       /\ IF active_index = 0
                          THEN failoverAt' = t /\ failoverTo' = to
                          ELSE UNCHANGED <<failoverAt, failoverTo>>
    /\ UNCHANGED <<probeTicks, clientVars>>
    /\ NotProbeState

NextFailover ==
    \/ \E ok \in [Targets -> BOOLEAN] : ControllerPush(ok)
    \/ \E d \in {5, 60, 121} : ProbeTick(d)

SpecFailover == InitAuth /\ [][NextFailover]_vars

\* ------------------------------------------------------- failover claim
\* C15: after the controller has switched from the primary to a secondary,
\* the active target remains that secondary for at least 120 s of monotonic
\* time, whatever the primary does
C15_StaysOnSecondaryFor120s ==
    (failoverAt >= 0 /\ mono < failoverAt + STICKINESS_SEC) => active_index = failoverTo


\* ------------------------------------------------- probe: transport client
MaxClientCalls == 7

MAX_ATTEMPTS == 3

CIRCUIT_THRESHOLD == 5

CIRCUIT_RESET_SEC == 30

\* what a target can answer to one request; NetworkError is an
\* aiohttp.ClientError or a timeout
NetworkError == 0

Statuses == {202, 204, 401, 408, 500, NetworkError}

\* client.py:138
Accepted(status) == status \in {200, 201, 202}

\* client.py:143
Unrecoverable(status) == 400 <= status /\ status < 500 /\ status # 408

\* the requests of one push_batch call, each with the headers built before
\* the loop: answers[k] is what the target answers to the k-th request
RECURSIVE Attempts(_, _, _)
Attempts(batch_id, answers, attempt) ==
    IF attempt > MAX_ATTEMPTS THEN <<>>
    ELSE LET request == [batch_id |-> batch_id, answer |-> answers[attempt]]
         IN IF Accepted(answers[attempt]) \/ Unrecoverable(answers[attempt])
            THEN <<request>>
            ELSE <<request>> \o Attempts(batch_id, answers, attempt + 1)

\* _is_circuit_open: open until circuit_reset_time has passed, then closed
\* again with the failure count at 0
is_circuit_open == circuit_open /\ ~(mono > circuit_reset_time)

\* FederationClient.push_batch for a batch that is not empty; the uuid of
\* the batch is the number of the call.  The backoff between attempts
\* (0.5 s, 1 s) is below the clock's grain.
push_batch(answers) ==
    /\ clientCalls < MaxClientCalls
    /\ clientCalls' = clientCalls + 1
    /\ IF is_circuit_open
       THEN /\ lastCall' = [requests |-> <<>>, result |-> FALSE, skipped |-> TRUE]
            /\ UNCHANGED <<consecutive_failures, circuit_open, circuit_reset_time, failedRun>>
       ELSE LET requests == Attempts(clientCalls + 1, answers, 1)
                final == requests[Len(requests)].answer
                failures == IF circuit_open THEN 0 ELSE consecutive_failures
            IN /\ lastCall' = [requests |-> requests, result |-> Accepted(final),
                               skipped |-> FALSE]
               /\ failedRun' = IF Accepted(final) THEN 0 ELSE failedRun + 1
               /\ IF Accepted(final)
                  THEN /\ consecutive_failures' = 0
                       /\ circuit_open' = FALSE
                       /\ UNCHANGED circuit_reset_time
                  ELSE IF Unrecoverable(final)
                  THEN /\ consecutive_failures' = failures
                       /\ circuit_open' = FALSE
                       /\ UNCHANGED circuit_reset_time
                  ELSE /\ consecutive_failures' = failures + 1
                       /\ circuit_open' = (failures + 1 >= CIRCUIT_THRESHOLD)
                       /\ circuit_reset_time' = IF failures + 1 >= CIRCUIT_THRESHOLD
                                                THEN mono + CIRCUIT_RESET_SEC
                                                ELSE circuit_reset_time
    /\ UNCHANGED <<clockVars, failoverVars>>
    /\ NotProbeState

\* a target that repeats one retriable answer until it gives its last one
AnswerSeqs ==
    {[k \in 1..MAX_ATTEMPTS |-> IF k <= j THEN r ELSE x] :
        j \in 0..(MAX_ATTEMPTS - 1), r \in {204, 408, 500, NetworkError}, x \in Statuses}

NextClient ==
    \/ \E answers \in AnswerSeqs : push_batch(answers)
    \/ \E d \in {5, 60} : ProbeTick(d)

SpecClient == InitAuth /\ [][NextClient]_vars


\* ------------------------------------------------- transport client claims
\* a push_batch call was made in this step; lastCall' describes it
ClientCalled == clientCalls' = clientCalls + 1

\* C16: five consecutive failed pushes open the circuit; while it is open
\* every push_batch returns failure without sending a request, for 30 s;
\* after 30 s one probe attempt is admitted, whose success closes the circuit
\* and resets the counters and whose failure leaves the circuit open
C16_CircuitBreaker ==
    [][ClientCalled =>
         /\ (~lastCall'.skipped /\ failedRun' >= CIRCUIT_THRESHOLD) => circuit_open'
         /\ (circuit_open /\ mono <= circuit_reset_time) =>
                lastCall'.skipped /\ ~lastCall'.result /\ lastCall'.requests = <<>>
         /\ (circuit_open /\ mono > circuit_reset_time) =>
                /\ ~lastCall'.skipped /\ lastCall'.requests # <<>>
                /\ lastCall'.result => ~circuit_open' /\ consecutive_failures' = 0
                /\ ~lastCall'.result => circuit_open']_vars

Is2xx(status) == 200 <= status /\ status < 300

Retriable(status) == status = 408 \/ status = NetworkError \/ (500 <= status /\ status < 600)

\* C17: one push_batch call sends at most max_attempts requests, all with
\* the same X-Batch-ID; a 2xx ends the call with success; a 4xx other than
\* 408 ends it with failure after that request; only 5xx, 408 and network
\* errors are retried, so the call succeeds whenever a 2xx is answered
\* within max_attempts attempts
C17_RetryPolicy ==
    [][(ClientCalled /\ ~lastCall'.skipped) =>
         LET rq == lastCall'.requests
         IN /\ Len(rq) \in 1..MAX_ATTEMPTS
            /\ \A k \in 1..Len(rq) :
                   /\ rq[k].batch_id = rq[1].batch_id
                   /\ Is2xx(rq[k].answer) => k = Len(rq) /\ lastCall'.result
                   /\ Unrecoverable(rq[k].answer) => k = Len(rq) /\ ~lastCall'.result
                   /\ k < Len(rq) => Retriable(rq[k].answer)
            /\ lastCall'.result <=> \E k \in 1..Len(rq) : Is2xx(rq[k].answer)]_vars

\* ------------------------------------------------ source_region through ETL
\* the source_region a stored record carries: the _meta stamp where the record
\* keeps one, the ingest_region column of a metric_conflicts row, else none
CarriedRegion(rec) ==
    IF "meta" \in DOMAIN rec THEN rec.meta.source_region
    ELSE IF "ingest_region" \in DOMAIN rec THEN rec.ingest_region
    ELSE "none"

\* the source_regions the gateway stamps on the payloads of the batches that
\* hold a metric stored under the key rk
StampedFor(rk) ==
    {SourceRegion(r, ParsedBody(r.body)) :
        r \in {q \in ProbeRequests :
                 \E i \in 1..Len(ParsedBody(q.body).metrics) :
                    StoreKey(MetricKey(ParsedBody(q.body).metrics[i])) = rk}}

\* C20: every row of metrics and every row of metric_conflicts carries the
\* source_region the gateway stamped into _meta when it enqueued the metric
C20_SourceRegionSurvivesEtl ==
    /\ \A i \in 1..Len(metrics) :
          CarriedRegion(metrics[i]) \in StampedFor(RowKey(metrics[i]))
    /\ \A i \in 1..Len(conflicts) :
          CarriedRegion(conflicts[i]) \in StampedFor(RowKey(conflicts[i]))

\* ---------------------------------------------------- aggregate query layer
\* queries in flight at once, and failures a breaker counts up to
MaxInFlight == 2

MaxFailures == 6

\* CircuitBreaker.record_failure
record_failure(cb) ==
    [failures |-> cb.failures + 1,
     last_failure |-> now,
     is_open |-> cb.is_open \/ cb.failures + 1 >= FAILURE_THRESHOLD]

\* CircuitBreaker.record_success
record_success(cb) == [cb EXCEPT !.failures = 0, !.is_open = FALSE]

\* CircuitBreaker.can_proceed
can_proceed(cb) ==
    IF ~cb.is_open THEN TRUE
    ELSE cb.last_failure # -1 /\ now - cb.last_failure > RESET_TIMEOUT

\* a selection that hands windows under 120 s to the one-minute aggregate
TableFor_NoRawFloor(window_seconds, dimension) ==
    IF window_seconds < 900 THEN "aggregates_1m"
    ELSE IF window_seconds < 7200
    THEN (IF dimension = "region" THEN "aggregates_5m_region" ELSE "aggregates_5m_node")
    ELSE IF window_seconds < 172800 THEN "aggregates_hourly"
    ELSE "aggregates_daily"

\* select_aggregate's choice by window size, before the breaker is asked
TableFor(window_seconds, dimension) ==
    IF window_seconds < 120 THEN "metrics"
    ELSE IF window_seconds < 900 THEN "aggregates_1m"
    ELSE IF window_seconds < 7200
    THEN (IF dimension = "region" THEN "aggregates_5m_region" ELSE "aggregates_5m_node")
    ELSE IF window_seconds < 172800 THEN "aggregates_hourly"
    ELSE "aggregates_daily"

Selection(table, requires_health_check) ==
    [table |-> table, check_health |-> requires_health_check]

select_aggregate(window_seconds, dimension, prefer_freshness) ==
    IF ~USE_AGGREGATES THEN Selection("metrics", FALSE)
    ELSE IF prefer_freshness /\ window_seconds < 600 THEN Selection("metrics", FALSE)
    ELSE LET table == TableFor(window_seconds, dimension)
         IN  IF table = "metrics" THEN Selection("metrics", FALSE)
             ELSE IF ~can_proceed(breakers[table]) THEN Selection("metrics", FALSE)
             ELSE Selection(table, TRUE)

\* what the store tells check_aggregate_health: the two queries fail, the view
\* is not listed, it has no materialization table, it has no bucket, or its
\* newest bucket is lag seconds old
Lags == {100, 120, 700}

HealthAnswers ==
    {[kind |-> k, lag |-> 0] : k \in {"error", "norow", "nomat", "nobucket"}}
        \cup {[kind |-> "bucket", lag |-> l] : l \in Lags}

\* a health gate that takes a lag equal to the view's max lag for fresh
check_aggregate_health_AtMost(view_name, answer) ==
    CASE answer.kind \in {"error", "norow"} -> FALSE
      [] answer.kind = "bucket" -> answer.lag <= MAX_LAG_SECONDS(view_name)
      [] OTHER -> TRUE

check_aggregate_health(view_name, answer) ==
    CASE answer.kind \in {"error", "norow"} -> FALSE
      [] answer.kind = "bucket" -> answer.lag < MAX_LAG_SECONDS(view_name)
      [] OTHER -> TRUE

NotAggState ==
    UNCHANGED <<ticks, kvVars, storeVars, etlVars, authVars, reqCount, last, lastAuth, gwHist,
                limiterVars, pushVars, auditVars, bufferVars, clockVars, failoverVars,
                clientVars, alertVars, raceVars, retryVars, nodeVars>>

AggResponse(code, source, window, table, stale, ingests) ==
    [code |-> code, source |-> source, window |-> window, table |-> table, stale |-> stale,
     ingests |-> ingests]

InFlight == SumOver(probing, AggregateTables)

\* a caller asks select_aggregate for its table and, given an aggregate, starts
\* query_with_fallback on it: the query is in flight until QueryEnd; at most
\* inflight callers are at work at once
Select(q, prefer_freshness, inflight) ==
    /\ InFlight < inflight
    /\ LET sel == select_aggregate(q[2], q[1], prefer_freshness)
       IN /\ sel.table # "metrics"
          /\ probing' = [probing EXCEPT ![sel.table] = @ + 1]
    /\ UNCHANGED <<now, breakers, disabledKey, cacheKey, aggCalls, lastAgg>>
    /\ NotAggState

\* query_with_fallback after its aggregate query: the result came (ok), or the
\* query timed out or raised
QueryEnd(table, ok) ==
    /\ probing[table] > 0
    /\ ok \/ breakers[table].failures < MaxFailures
    /\ probing' = [probing EXCEPT ![table] = @ - 1]
    /\ breakers' = [breakers EXCEPT
                      ![table] = IF ok THEN record_success(@) ELSE record_failure(@)]
    /\ UNCHANGED <<now, disabledKey, cacheKey, aggCalls, lastAgg>>
    /\ NotAggState

OpenCount == Cardinality({t \in AggregateTables : breakers[t].is_open})

\* check_auto_rollback(redis)
CheckAutoRollback ==
    /\ kvUp
    /\ ~Exists(disabledKey)
    /\ OpenCount >= 3
    /\ disabledKey' = SetEx(ROLLBACK_COOLDOWN_SECONDS)
    /\ UNCHANGED <<now, breakers, probing, cacheKey, aggCalls, lastAgg>>
    /\ NotAggState

\* more than the reset timeout passes; an aggregate query is bounded at
\* QUERY_TIMEOUT_SECONDS = 5, so none is still in flight afterwards
BreakerClock == InFlight = 0 /\ \E d \in {61} : Tick(d)

\* concurrent callers of the one-minute aggregate
NextBreaker ==
    \/ \E q \in Dimensions \X {300}, prefer_freshness \in BOOLEAN :
          Select(q, prefer_freshness, MaxInFlight)
    \/ \E table \in AggregateTables, ok \in BOOLEAN : QueryEnd(table, ok)
    \/ BreakerClock

SpecBreaker == InitAuth /\ [][NextBreaker]_vars

\* callers of all the aggregates, one at a time, and the rollback check
NextRollback ==
    \/ \E q \in Queries : Select(q, FALSE, 1)
    \/ \E table \in AggregateTables, ok \in BOOLEAN : QueryEnd(table, ok)
    \/ CheckAutoRollback
    \/ BreakerClock

SpecRollback == InitAuth /\ [][NextRollback]_vars

\* ---------------------------------------------------------- breaker claims
\* select_aggregate has just handed a query to the aggregate table
Admitted(table) == probing'[table] = probing[table] + 1

\* C23: a breaker with 5 recorded failures is open; while it is open no query
\* is handed to its table before 60 s have passed since the last failure, and
\* after that only one at a time: none while a test query awaits its outcome
C23_BreakerHalfOpenAdmitsOne ==
    [][\A table \in AggregateTables :
          /\ breakers'[table].failures >= FAILURE_THRESHOLD => breakers'[table].is_open
          /\ (Admitted(table) /\ breakers[table].is_open) =>
                /\ now - breakers[table].last_failure > RESET_TIMEOUT
                /\ probing[table] = 0]_vars

\* C24: while the kv flag aggregation:disabled is set, select_aggregate
\* returns raw metrics for every window and dimension
C24_DisabledFlagForcesRaw ==
    Exists(disabledKey) =>
        \A dimension \in Dimensions, window \in Windows \cup {86400} :
            select_aggregate(window, dimension, FALSE).table = "metrics"

\* ------------------------------------------------- GET /metrics/aggregated
MaxAggRequests == 2

\* history: metrics the gateway has enqueued so far, over all accepted batches
EnqueuedSoFar == SumOver(enqueuedBatches, MetricKeys)

\* get_cached: the data of the entry, when the key is there and the entry is
\* not older than 2 * TTL_CLUSTER; the route then tests `if cached`, which an
\* empty list fails
CacheHit(entry) ==
    /\ kvUp
    /\ Exists(entry.expiry)
    /\ now - entry.cached_at <= TTL_CLUSTER * 2
    /\ ~entry.empty

\* set_cached: an error of the kv-store is swallowed
set_cached(key, q, empty, ttl) ==
    IF kvUp
    THEN [key EXCEPT ![q] = [expiry |-> SetEx(ttl), cached_at |-> now, empty |-> empty,
                             ingests |-> EnqueuedSoFar]]
    ELSE key

\* get_aggregated_metrics for the query q; answer is what the store tells the
\* health gate, dbEmpty and dbFails what it does with the data query
GetAggregated(q, prefer_freshness, answer, dbEmpty, dbFails) ==
    /\ aggCalls < MaxAggRequests
    /\ aggCalls' = aggCalls + 1
    /\ LET window_seconds == q[2]
           sel == select_aggregate(window_seconds, q[1], prefer_freshness)
           gated == sel.check_health /\ sel.table # "metrics"
           healthy == check_aggregate_health(sel.table, answer)
           source == IF gated /\ ~healthy THEN "metrics (fallback)" ELSE sel.table
           stale == /\ gated
                    /\ answer.kind = "bucket"
                    /\ answer.lag >= MAX_LAG_SECONDS(sel.table)
           ttl == IF window_seconds < 600 THEN TTL_REALTIME ELSE TTL_CLUSTER
       IN IF CacheHit(cacheKey[q])
          THEN /\ lastAgg' = AggResponse(200, "cache", window_seconds, "metrics", FALSE,
                                         cacheKey[q].ingests)
               /\ UNCHANGED cacheKey
          ELSE IF dbFails
          THEN /\ lastAgg' = AggResponse(500, "", window_seconds, sel.table, stale,
                                         EnqueuedSoFar)
               /\ UNCHANGED cacheKey
          ELSE /\ lastAgg' = AggResponse(200, source, window_seconds, sel.table, stale,
                                         EnqueuedSoFar)
               /\ cacheKey' = set_cached(cacheKey, q, dbEmpty, ttl)
    /\ UNCHANGED <<now, breakers, probing, disabledKey>>
    /\ NotAggState

\* half a minute passes: an entry of a real-time window has run out, an entry
\* of a longer window has not
MaxAggTicks == 1

AggClock == ticks < MaxAggTicks /\ \E d \in {30} : Tick(d)

\* the dashboard's queries, and the batch a probe sends meanwhile
AggQueries == {<<"node", 60>>, <<"node", 300>>, <<"region", 3600>>}

AggIngest ==
    Ingest(IngestRequest(NoSig, NoTs, NoHeader, "b1", "A", SecretBearer, NoHeader), FALSE)

NextAggregate ==
    \/ \E q \in AggQueries, prefer_freshness \in BOOLEAN, answer \in HealthAnswers,
          dbEmpty \in BOOLEAN, dbFails \in BOOLEAN :
            GetAggregated(q, prefer_freshness, answer, dbEmpty, dbFails)
    \/ \E q \in {<<"node", 300>>} : Select(q, FALSE, 1)
    \/ \E table \in AggregateTables, ok \in BOOLEAN : QueryEnd(table, ok)
    \/ AggIngest
    \/ AggClock

SpecAggregate == InitAuth /\ [][NextAggregate]_vars

\* -------------------------------------------------------- aggregate claims
Answered == aggCalls' = aggCalls + 1

\* C21: a response of /metrics/aggregated to a query whose window is shorter
\* than 120 s names metrics or cache as its meta.source
C21_ShortWindowServedRaw ==
    (lastAgg.code = 200 /\ lastAgg.window < 120) => lastAgg.source \in {"metrics", "cache"}

\* a short window answered from raw metrics while a breaker is open
C21_Witness ==
    /\ lastAgg.code = 200
    /\ lastAgg.window < 120
    /\ lastAgg.source = "metrics"
    /\ OpenCount > 0

\* C22: a query whose selected aggregate the health gate finds stale is
\* answered from raw metrics with meta.source "metrics (fallback)", and the
\* breakers are as they were
C22_StaleIsNotFailure ==
    [][(Answered /\ lastAgg'.code = 200 /\ lastAgg'.stale) =>
          /\ lastAgg'.source = "metrics (fallback)"
          /\ breakers' = breakers]_vars

\* a stale one-minute aggregate bypassed while its breaker counts failures
C22_Witness ==
    /\ lastAgg.code = 200
    /\ lastAgg.stale
    /\ lastAgg.source = "metrics (fallback)"
    /\ breakers[lastAgg.table].failures > 0

\* C25: a response served from the cache comes from an entry written after
\* every ingest the gateway has accepted
C25_CacheReadYourWrites ==
    [][(Answered /\ lastAgg'.source = "cache") => lastAgg'.ingests = EnqueuedSoFar]_vars

\* ------------------------------------------------------------ alert engine
MaxAlertMetrics == 3

\* _load_default_rules, in order
Rules ==
    <<[metric_key |-> "latency_ms", operator |-> ">", threshold |-> ALERT_LATENCY_CRIT,
       severity |-> "critical"],
      [metric_key |-> "latency_ms", operator |-> ">", threshold |-> ALERT_LATENCY_WARN,
       severity |-> "warning"],
      [metric_key |-> "packet_loss", operator |-> ">", threshold |-> ALERT_LOSS_CRIT,
       severity |-> "critical"],
      [metric_key |-> "packet_loss", operator |-> ">", threshold |-> ALERT_LOSS_WARN,
       severity |-> "warning"],
      [metric_key |-> "uptime_pct", operator |-> "<", threshold |-> ALERT_UPTIME_WARN,
       severity |-> "warning"]>>

\* ThresholdRule.evaluate: the dedup key of the alert the rule raises, if any
evaluate(rule, metric) ==
    LET value == metric[rule.metric_key]
        triggered == \/ rule.operator = ">" /\ value > rule.threshold
                     \/ rule.operator = "<" /\ value < rule.threshold
    IN  IF triggered THEN <<<<metric.node_id, rule.metric_key, rule.severity>>>> ELSE <<>>

RECURSIVE EvaluateFrom(_, _)
EvaluateFrom(i, metric) ==
    IF i > Len(Rules) THEN <<>>
    ELSE evaluate(Rules[i], metric) \o EvaluateFrom(i + 1, metric)

\* the metrics the replicas see
AlertMetrics ==
    {[node_id |-> "n1", latency_ms |-> l, packet_loss |-> 0, uptime_pct |-> u] :
        l \in {300, 600}, u \in {100}}

\* a dedup check that never finds the key
is_duplicate_Never(key) == FALSE

\* _is_duplicate: SET key 1 EX cooldown NX answers nil when the key is there
is_duplicate(key) == Exists(alertKey[key])

NotAlertState ==
    UNCHANGED <<now, ticks, kvVars, storeVars, etlVars, authVars, reqCount, last, lastAuth,
                gwHist, limiterVars, pushVars, auditVars, bufferVars, clockVars, failoverVars,
                clientVars, aggVars, raceVars, retryVars, nodeVars>>

\* AlertEngine.process, up to its first await: the rules are evaluated
AlertProcess(w, metric) ==
    /\ alertCalls < MaxAlertMetrics
    /\ alertPc[w].pc = "idle"
    /\ alertCalls' = alertCalls + 1
    /\ LET alerts == EvaluateFrom(1, metric)
       IN alertPc' = [alertPc EXCEPT
                        ![w] = IF alerts = <<>> THEN NoAlerts
                               ELSE [pc |-> "dedup", alerts |-> alerts, since |-> 0]]
    /\ UNCHANGED <<alertKey, quotaKey, dispatchLog, dedupDropped>>
    /\ NotAlertState

\* the replica goes on to its next alert, or leaves process
NextAlert(w) ==
    IF Len(alertPc[w].alerts) > 1
    THEN [pc |-> "dedup", alerts |-> Tail(alertPc[w].alerts), since |-> 0]
    ELSE NoAlerts

\* step 1 for the alert at hand: one SET NX EX on its dedup key
AlertDedup(w) ==
    /\ alertPc[w].pc = "dedup"
    /\ LET key == Head(alertPc[w].alerts)
       IN IF is_duplicate(key)
          THEN /\ dedupDropped' = dedupDropped + 1
               /\ alertPc' = [alertPc EXCEPT ![w] = NextAlert(w)]
               /\ UNCHANGED alertKey
          ELSE /\ alertKey' = [alertKey EXCEPT ![key] = SetEx(ALERT_LOOP_COOLDOWN_SEC)]
               /\ alertPc' = [alertPc EXCEPT ![w] = [@ EXCEPT !.pc = "limits", !.since = now]]
               /\ UNCHANGED dedupDropped
    /\ UNCHANGED <<quotaKey, dispatchLog, alertCalls>>
    /\ NotAlertState

\* steps 2 and 3: _check_rate_limits (the node's quota, then the global token
\* bucket, whose script answers allowed) and the dispatcher
AlertSend(w, allowed) ==
    /\ alertPc[w].pc = "limits"
    /\ LET key == Head(alertPc[w].alerts)
           node == key[1]
           old == quotaKey[node]
           node_count == IF Exists(old.expiry) THEN old.count + 1 ELSE 1
           quota == [count |-> node_count,
                     expiry |-> IF node_count = 1 THEN SetEx(NODE_QUOTA_TTL) ELSE old.expiry]
       IN /\ quotaKey' = [quotaKey EXCEPT ![node] = quota]
          /\ dispatchLog' = IF node_count > NODE_RATE_LIMIT \/ ~allowed THEN dispatchLog
                            ELSE Append(dispatchLog, [key |-> key, since |-> alertPc[w].since])
    /\ alertPc' = [alertPc EXCEPT ![w] = NextAlert(w)]
    /\ UNCHANGED <<alertKey, dedupDropped, alertCalls>>
    /\ NotAlertState

AlertClock == \E d \in {450} : Tick(d)

NextAlerts ==
    \/ \E w \in EtlReplicas, metric \in AlertMetrics : AlertProcess(w, metric)
    \/ \E w \in EtlReplicas : AlertDedup(w)
    \/ \E w \in EtlReplicas, allowed \in BOOLEAN : AlertSend(w, allowed)
    \/ AlertClock

SpecAlerts == InitAuth /\ [][NextAlerts]_vars

\* ------------------------------------------------------------ alert claims
\* C26: two alerts with the same (node_id, metric_name, severity) reach the
\* dispatcher only if they passed the dedup step a cooldown or more apart
C26_OneAlertPerCooldown ==
    \A i, j \in 1..Len(dispatchLog) :
        (i < j /\ dispatchLog[i].key = dispatchLog[j].key) =>
            Abs(dispatchLog[j].since - dispatchLog[i].since) >= ALERT_LOOP_COOLDOWN_SEC

\* both replicas are inside process for the same node, one alert has been
\* dispatched and another dropped as a duplicate
C26_Witness ==
    /\ \A w \in EtlReplicas : alertPc[w].pc # "idle"
    /\ dedupDropped > 0
    /\ Len(dispatchLog) > 0

\* ------------------------------------------------- routes behind a token
\* the routes whose handler is wrapped in @require_auth (routes.py:1018, 1069);
\* /api/push among them is served by PushBegin and PushEnd
REQUIRE_AUTH_ROUTES == {"/api/push", "/api/auth/me"}

\* routes without a decorator: their handler runs for whatever user the
\* middleware has set (routes.py:290, 475, 645, 853, 882)
UndecoratedRoutes ==
    {"/api/metrics", "/api/metrics/aggregated", "/api/metrics/cluster",
     "/api/probe/heartbeat", "/api/federation/status"}

\* the status a route answers once the middleware has handed the request on
RouteStatus(path, user) ==
    IF path \in REQUIRE_AUTH_ROUTES /\ require_auth(user) # 0 THEN 401 ELSE 200

\* a request to one of these routes: the middleware, then the route
EndpointRequest(bearer, path) ==
    /\ reqCount < MaxAuthRequests
    /\ reqCount' = reqCount + 1
    /\ LET mw == Dispatch(bearer, path)
           code == IF mw.code # 0 THEN mw.code ELSE RouteStatus(path, mw.user)
       IN lastAuth' = AuthRequest("endpoint", bearer, path, NoBearer, code)
    /\ UNCHANGED <<kvUp, revokedKey, authVars>>
    /\ NotAuthState

AccessCallers == {t \in issued : t.type = "access"} \cup {NoBearer, GarbageBearer}

\* an access token's lifetime passes
AccessClock == \E d \in {JWT_ACCESS_EXPIRY_MINUTES * 60} : Tick(d)

NextAccess ==
    \/ issued = {} /\ Login("admin", TRUE)
    \/ \E bearer \in AccessCallers : Logout(bearer)
    \/ \E bearer \in AccessCallers, path \in UndecoratedRoutes \cup {"/api/auth/me"} :
          EndpointRequest(bearer, path)
    \/ \E bearer \in AccessCallers : pushCount < MaxOutagePushes /\ PushBegin(bearer)
    \/ PushEnd(1, FALSE)
    \/ AccessClock

SpecAccess == InitAuth /\ [][NextAccess]_vars

\* ------------------------------------------------------------ access claims
AccessPaths == UndecoratedRoutes \cup REQUIRE_AUTH_ROUTES \cup {"/api/auth/logout"}

\* no bearer token, or one that is not a token this gateway issued and that is
\* still within its lifetime
NoValidToken(bearer) ==
    \/ bearer.kind \in {"none", "garbage"}
    \/ bearer.kind = "jwt" /\ ~verify_token_claims(bearer)

\* C27: a request to an access endpoint that bears no token or an invalid one
\* is answered 401
C27_AccessEndpointsNeedToken ==
    [][/\ (reqCount' = reqCount + 1 /\ lastAuth'.path \in AccessPaths
             /\ NoValidToken(lastAuth'.bearer)) => lastAuth'.code = 401
       /\ (lastPush' # lastPush /\ NoValidToken(lastPush'.bearer)) => lastPush'.code = 401]_vars


\* ====================================================== /api/ingest, again
\* C28: an /ingest request without X-Batch-ID is answered with a 4xx,
\* enqueues nothing and sets no idempotency key.
C28_MissingBatchIdRejected ==
    [][(IngestServed /\ last'.req.batch_id = NoHeader)
       => (/\ last'.code \in 400..499
           /\ queue' = queue
           /\ idemKey' = idemKey)]_vars

\* the request being served is well-formed, carries X-Batch-ID and finds
\* idempotency:batch:<id> alive, so routes.py:216-217 answers it "Batch
\* already processed" and nothing of it is enqueued
AnsweredAlreadyProcessed ==
    /\ IngestServed
    /\ last'.req.batch_id # NoHeader
    /\ WellFormed(last'.req)
    /\ Exists(idemKey[last'.req.batch_id])

\* C30: idempotency:batch:<id> marks a batch as processed only if the batch
\* was accepted: a request is answered "already processed" only when an
\* earlier request with the same X-Batch-ID went through, never after one
\* that ended in 400 INVALID_REGION or in 500.
C30_RetryAfterErrorProcessedAgain ==
    [][AnsweredAlreadyProcessed => acceptedAt[last'.req.batch_id] >= 0]_vars


\* ============================================= /api/ingest, calls interleaved
\* ingest_batch awaits the kv-store twice in its nonce step: redis.exists
\* (routes.py:158) and redis.setex (routes.py:160).  Another call, in the
\* same event loop or in another gateway process, can run between the two.
NotRaceState ==
    UNCHANGED <<now, ticks, kvUp, dedupKey, revokedKey, storeVars, etlVars, authVars, lastAuth,
                limiterVars, pushVars, auditVars, bufferVars, clockVars, failoverVars,
                clientVars, aggVars, alertVars, retryVars, nodeVars>>

\* signed requests that reach the nonce step: all four headers, a timestamp
\* inside the window
NonceRequests == {r \in SignedRequests : TimestampVerdict(r.timestamp) = 0}

\* routes.py:128-154: the body and the headers are read, the timestamp passes
IngestBegin(h, r) ==
    /\ reqCount < MaxRequests
    /\ handling[h].pc \in {"idle", "done"}
    /\ HmacBlockRuns(r)
    /\ TimestampVerdict(r.timestamp) = 0
    /\ Dispatch(r.bearer, "/api/ingest").code = 0
    /\ handling' = [handling EXCEPT ![h] = [pc |-> "begun", req |-> r, passedAt |-> -1, code |-> 0]]
    /\ reqCount' = reqCount + 1
    /\ UNCHANGED <<kvVars, last, gwHist>>
    /\ NotRaceState

\* routes.py:157-159  if await redis.exists(nonce_key): raise 401
NonceExists(h) ==
    /\ handling[h].pc = "begun"
    /\ handling' = [handling EXCEPT ![h] =
           IF Exists(nonceKey[handling[h].req.nonce])
           THEN [@ EXCEPT !.pc = "done", !.code = 401]
           ELSE [@ EXCEPT !.pc = "checked", !.passedAt = now]]
    /\ UNCHANGED <<kvVars, reqCount, last, gwHist>>
    /\ NotRaceState

\* routes.py:160-287  await redis.setex(nonce_key, 600, "1"), then the
\* signature and the rest of the handler
NonceSetex(h, pipeFault) ==
    /\ handling[h].pc = "checked"
    /\ LET r == handling[h].req
           res == IF ~SignatureMatches(r) THEN Result(401, TRUE, FALSE, FALSE, <<>>)
                  ELSE IngestBody(r, TRUE, pipeFault)
           ik == IdempotencyKeyOf(r.batch_id)
       IN  /\ nonceKey' = [nonceKey EXCEPT ![r.nonce] = SetEx(NONCE_TTL_SEC)]
           /\ idemKey' = IF res.idemSet
                         THEN [idemKey EXCEPT ![ik] = SetEx(IDEMPOTENCY_TTL_SEC)]
                         ELSE idemKey
           /\ rejections' = IF res.rejected THEN rejections + 1 ELSE rejections
           /\ queue' = queue \o res.pushed
           /\ last' = [req |-> r, code |-> res.code, pushed |-> Len(res.pushed)]
           /\ acceptedAt' = IF res.code = 200 THEN [acceptedAt EXCEPT ![ik] = now] ELSE acceptedAt
           /\ enqueuedTimes' = [k \in MetricKeys |->
                  enqueuedTimes[k] + Cardinality({i \in 1..Len(res.pushed) : MetricKey(res.pushed[i]) = k})]
           /\ enqueuedBatches' = [k \in MetricKeys |->
                  enqueuedBatches[k] + (IF \E i \in 1..Len(res.pushed) : MetricKey(res.pushed[i]) = k
                                        THEN 1 ELSE 0)]
           /\ handling' = [handling EXCEPT ![h] = [@ EXCEPT !.pc = "done", !.code = res.code]]
    /\ UNCHANGED <<reqCount>>
    /\ NotRaceState

\* a call is over long before the clock's step
RaceClock ==
    /\ \A h \in Handlers : handling[h].pc \in {"idle", "done"}
    /\ \E d \in {300} : Tick(d)

NextRace ==
    \/ \E h \in Handlers, r \in NonceRequests : IngestBegin(h, r)
    \/ \E h \in Handlers : NonceExists(h)
    \/ \E h \in Handlers, pipeFault \in BOOLEAN : NonceSetex(h, pipeFault)
    \/ RaceClock

SpecRace == InitAuth /\ [][NextRace]_vars

\* the call found the nonce key absent and went on
PassedNonceCheck(h) == handling[h].pc \in {"checked", "done"} /\ handling[h].passedAt >= 0

\* C29: of two /ingest calls carrying the same nonce, at most one passes the
\* nonce check while the nonce's 600 s have not run out.
C29_OneCallPerNonce ==
    \A g \in Handlers, h \in Handlers :
        (/\ g # h
         /\ PassedNonceCheck(g)
         /\ PassedNonceCheck(h)
         /\ handling[g].req.nonce = handling[h].req.nonce)
        => Abs(handling[g].passedAt - handling[h].passedAt) >= NONCE_TTL_SEC


\* ================================== push_batch's retries against /api/ingest
\* FederationClient.push_batch builds batch_id, timestamp, nonce and signature
\* once (client.py:109-132) and sends the same headers in every attempt of
\* its loop (client.py:134-137).
NotRetryState ==
    UNCHANGED <<now, ticks, kvUp, dedupKey, revokedKey, storeVars, etlVars, authVars, lastAuth,
                limiterVars, pushVars, auditVars, bufferVars, clockVars, failoverVars,
                clientVars, aggVars, alertVars, raceVars, nodeVars>>

\* what the kv-store and the queue keep of a served /api/ingest request
IngestOutcome(r, res) ==
    LET ik == IdempotencyKeyOf(r.batch_id)
    IN  /\ nonceKey' = IF res.nonceSet
                       THEN [nonceKey EXCEPT ![r.nonce] = SetEx(NONCE_TTL_SEC)]
                       ELSE nonceKey
        /\ idemKey' = IF res.idemSet
                      THEN [idemKey EXCEPT ![ik] = SetEx(IDEMPOTENCY_TTL_SEC)]
                      ELSE idemKey
        /\ rejections' = IF res.rejected THEN rejections + 1 ELSE rejections
        /\ queue' = queue \o res.pushed
        /\ acceptedAt' = IF res.code = 200 THEN [acceptedAt EXCEPT ![ik] = now] ELSE acceptedAt
        /\ enqueuedTimes' = [k \in MetricKeys |->
               enqueuedTimes[k] + Cardinality({i \in 1..Len(res.pushed) : MetricKey(res.pushed[i]) = k})]
        /\ enqueuedBatches' = [k \in MetricKeys |->
               enqueuedBatches[k] + (IF \E i \in 1..Len(res.pushed) : MetricKey(res.pushed[i]) = k
                                     THEN 1 ELSE 0)]

\* the requests push_batch builds: signed with the shared secret over the
\* probe's own clock reading, a uuid as nonce and a uuid as batch id
BuiltRequests ==
    {IngestRequest(SigBy(FEDERATION_SECRET, Ts("aware", 0), n, b, body), Ts("aware", 0), n, b,
                   body, SecretBearer, NoHeader) :
        <<n, b>> \in {<<"k1", "b1">>, <<"k2", "b2">>}, body \in {"A"}}

\* client.py:109-132: a call begins; its uuids have not been used before
PushBatchBegin(r) ==
    /\ calling.pc \in {"idle", "returned"}
    /\ nonceKey[r.nonce] = 0
    /\ idemKey[r.batch_id] = 0
    /\ calling' = [NoCall EXCEPT !.pc = "retrying", !.req = r]
    /\ UNCHANGED <<kvVars, reqCount, last, gwHist>>
    /\ NotRetryState

\* client.py:134-165: one attempt of the loop.  arrives: the request gets to
\* the gateway (otherwise aiohttp.ClientError); pipeFault: the gateway's
\* pipeline.execute() raises; lost: the answer does not come back within the
\* 10 s timeout.  The backoff (0.5 s, 1 s) is below the clock's grain.
PushAttempt(arrives, pipeFault, lost) ==
    /\ calling.pc = "retrying"
    /\ LET r == calling.req
           mw == Dispatch(r.bearer, "/api/ingest")
           res == IF ~arrives THEN Result(0, FALSE, FALSE, FALSE, <<>>)
                  ELSE IF mw.code # 0 THEN Result(mw.code, FALSE, FALSE, FALSE, <<>>)
                  ELSE ingest_batch(r, pipeFault)
           status == IF ~arrives \/ lost THEN NetworkError ELSE res.code
           over == Accepted(status) \/ Unrecoverable(status)
                   \/ calling.attempt + 1 = MAX_ATTEMPTS
       IN  /\ IngestOutcome(r, res)
           /\ last' = IF arrives
                      THEN [req |-> r, code |-> res.code, pushed |-> Len(res.pushed)]
                      ELSE last
           /\ reqCount' = IF arrives THEN reqCount + 1 ELSE reqCount
           /\ calling' = [calling EXCEPT
                  !.pc = IF over THEN "returned" ELSE "retrying",
                  !.attempt = @ + 1,
                  !.reached = @ \/ (arrives /\ ~Accepted(status) /\ ~Unrecoverable(status)),
                  !.enqueued = @ \/ Len(res.pushed) > 0,
                  !.arrived = arrives,
                  !.fault = pipeFault,
                  !.result = Accepted(status)]
    /\ UNCHANGED <<now, ticks, kvUp, dedupKey, revokedKey>>
    /\ NotRetryState

RetryClock ==
    /\ calling.pc # "retrying"
    /\ \E d \in {300} : Tick(d)

NextRetry ==
    \/ \E r \in BuiltRequests : PushBatchBegin(r)
    \/ \E arrives \in BOOLEAN, pipeFault \in BOOLEAN, lost \in BOOLEAN :
          PushAttempt(arrives, pipeFault, lost)
    \/ RetryClock

SpecRetry == InitAuth /\ [][NextRetry]_vars

\* the step is an attempt of the push_batch call
Attempted == calling'.attempt = calling.attempt + 1

\* C31: when an earlier attempt of the call reached the gateway's nonce check
\* and ended in a 5xx or a timeout, a later attempt that reaches the gateway
\* (whose own queue push does not fail) is not answered 401 and the batch of
\* the call has been enqueued.
C31_RetryNotRejectedAsReplay ==
    [][(Attempted /\ calling.reached /\ calling'.arrived /\ ~calling'.fault)
       => (last'.code # 401 /\ calling'.enqueued)]_vars


\* ================================================= ETL dedup and the store
\* the pipeline with workers that do not die: a batch that has been through
\* dedupe_batch always gets to its store transaction
NextRedelivery ==
    \/ ProbeIngest
    \/ EtlClock
    \/ \E w \in EtlReplicas : EtlPop(w)
    \/ \E w \in EtlReplicas : EtlDedupe(w)
    \/ \E w \in EtlReplicas, storeFault \in BOOLEAN : EtlStore(w, storeFault)

SpecRedelivery == Init /\ [][NextRedelivery]_vars

\* the metrics whose dedup key is dk
SharingDedupKey(dk) ==
    {k \in MetricKeys : DedupKeyOf([node_id |-> k[1], timestamp |-> k[2]]) = dk}

\* C32: while no worker holds a batch, every dedup key that is alive (so that
\* dedupe_batch drops a redelivery of its metric) belongs to a metric that is
\* in the store.
C32_DedupKeyOnlyForCommitted ==
    (\A w \in EtlReplicas : etl[w].pc = "idle")
        => \A dk \in DOMAIN dedupKey :
              Exists(dedupKey[dk]) => \E k \in SharingDedupKey(dk) : Recorded(k)

\* how many entries of the batch ms are the metric k
Occurrences(k, ms) == Cardinality({i \in 1..Len(ms) : MetricKey(ms[i]) = k})

\* the replica w has just run dedupe_batch on the batch it had popped
Deduped(w) == etl[w].pc = "popped" /\ etl'[w].pc # "popped"

\* what dedupe_batch returned to w
KeptBy(w) == IF etl'[w].pc = "deduped" THEN etl'[w].batch ELSE <<>>

\* C35: dedupe_batch drops a metric only if a metric with the same node_id
\* and the same timestamp was seen before it, i.e. that metric has been
\* enqueued at least twice.
C35_DropsOnlySameTimestamp ==
    [][\A w \in EtlReplicas : Deduped(w) =>
          \A k \in MetricKeys :
             Occurrences(k, KeptBy(w)) < Occurrences(k, etl[w].batch) => enqueuedTimes[k] >= 2]_vars


\* ============================================ failover controller, again
\* a push call of the controller was made in this step
ControllerPushed == ctlPushes' = ctlPushes + 1

\* the step promoted the controller back to the primary: the push went to
\* the active non-primary target and succeeded, with the success count at
\* PROMOTION_THRESHOLD and the cooldown over
PromotedToPrimary ==
    /\ active_index > 0 /\ active_index' = 0
    /\ lastCtl' = [success |-> TRUE, active |-> active_index]
    /\ ctlFailures' = 0
    /\ ctlSuccesses + 1 >= PROMOTION_THRESHOLD
    /\ mono >= cooldown_until
    /\ mono' = mono

\* the step failed over: the active target failed, the target that is now
\* active accepted the batch, and the cooldown runs for STICKINESS_SEC
FailedOver ==
    /\ ctlFailures' = ctlFailures + 1
    /\ lastCtl' = [success |-> TRUE, active |-> active_index']
    /\ cooldown_until' = mono' + STICKINESS_SEC

\* C33: active_index changes only by a promotion to index 0 or by a failover
\* to the fallback target that accepted the batch; a push that fails on
\* every target returns (False, None) and leaves active_index as it was.
C33_ActiveIndexChanges ==
    [][/\ active_index' # active_index => (ControllerPushed /\ (PromotedToPrimary \/ FailedOver))
       /\ (ControllerPushed /\ ~lastCtl'.success)
             => (active_index' = active_index /\ lastCtl'.active = -1)]_vars

\* the controller has failed over to the secondary and has just been
\* promoted back by a successful push to it
C33_Witness ==
    /\ failoverAt >= 0
    /\ active_index = 0
    /\ lastCtl = [success |-> TRUE, active |-> 1]
    /\ ctlSuccesses = 0


\* ================================================ durable buffer, byte quota
\* a metric as the buffer stores it: bytes is len(json.dumps(metric))
SizedMetric(seq, bytes) == [seq |-> seq, bytes |-> bytes]

PayloadSizes == {1, 5}

\* DurableBuffer._get_size: SELECT SUM(size_bytes) FROM queue
RECURSIVE get_size(_)
get_size(rows) ==
    IF rows = {} THEN 0
    ELSE LET r == CHOOSE x \in rows : TRUE IN r.data.bytes + get_size(rows \ {r})

\* DurableBuffer.push (buffer.py:50-67) with max_size = MaxBufferBytes
push(rows, metric) ==
    LET size == metric.bytes
        current_size == get_size(rows)
        kept == IF current_size + size > MaxBufferBytes THEN drop_oldest(rows) ELSE rows
    IN kept \cup {Row(nextRowId, metric, FALSE)}

\* producer: a metric of the given payload size is pushed
ProduceSized(bytes) ==
    /\ produced < MaxProduced
    /\ produced' = produced + 1
    /\ bufRows' = push(bufRows, SizedMetric(produced + 1, bytes))
    /\ nextRowId' = nextRowId + 1
    /\ UNCHANGED <<consumerPc, peeked, pushOk>>
    /\ NotBufferState

NextQuota ==
    \/ \E bytes \in PayloadSizes : ProduceSized(bytes)
    \/ ConsumerPeek
    \/ \E success \in BOOLEAN : ConsumerDone(success)

SpecQuota == InitAuth /\ [][NextQuota]_vars

\* C34: the sum of size_bytes over the rows of the buffer never exceeds
\* max_size_bytes.
C34_BufferWithinQuota == get_size(bufRows) <= MaxBufferBytes


\* ============================================= /metrics/aggregated, again
\* the table get_aggregated_metrics sends its data query to (routes.py:
\* 521-555): the selected one, or raw metrics when the health gate refuses it
QueriedTable(q, prefer_freshness, answer) ==
    LET sel == select_aggregate(q[2], q[1], prefer_freshness)
    IN  IF sel.check_health /\ sel.table # "metrics"
           /\ ~check_aggregate_health(sel.table, answer)
        THEN "metrics"
        ELSE sel.table

\* the step serves q with a data query that goes to an aggregate table and
\* raises (or is cut off)
AggregateQueryFailed(q, prefer_freshness, answer) ==
    /\ ~CacheHit(cacheKey[q])
    /\ QueriedTable(q, prefer_freshness, answer) \in AggregateTables
    /\ \E dbEmpty \in BOOLEAN : GetAggregated(q, prefer_freshness, answer, dbEmpty, TRUE)

\* C36: when the aggregate-table query of a /metrics/aggregated request
\* fails, the breaker of that table counts one more failure and the request
\* is answered 200 from raw metrics.
C36_FailedAggregateFallsBack ==
    [][\A q \in AggQueries, prefer_freshness \in BOOLEAN, answer \in HealthAnswers :
          AggregateQueryFailed(q, prefer_freshness, answer) =>
             LET table == QueriedTable(q, prefer_freshness, answer)
             IN  /\ lastAgg'.code = 200
                 /\ breakers'[table].failures = breakers[table].failures + 1]_vars


\* ======================================== order of a batch through the queue
\* LPUSH of the entries one after the other: each goes to the head
RECURSIVE LPush(_, _)
LPush(entries, list) ==
    IF entries = <<>> THEN list ELSE LPush(Tail(entries), <<Head(entries)>> \o list)

\* push_metrics' enqueue loop (routes.py:1037-1043) for a caller that the
\* middleware and the limiter have let through: metric.json() of every
\* metric of the payload, in order, by LPUSH
PushBatch(body) ==
    /\ pushCount = 0 /\ reqCount = 0
    /\ kvUp
    /\ pushCount' = pushCount + 1
    /\ queue' = LPush(ParsedBody(body).metrics, queue)
    /\ lastPush' = PushResponse(SecretBearer, 202, "", FALSE, -1, "none", FALSE)
    /\ UNCHANGED <<pushing, okRun, limiterVars>>
    /\ NotPushState

\* the same batch sent to /api/ingest, which enqueues by RPUSH
OrderedIngest ==
    /\ pushCount = 0 /\ reqCount = 0
    /\ Ingest(IngestRequest(NoSig, NoTs, NoHeader, "b1", "B", SecretBearer, NoHeader), FALSE)

NextOrder ==
    \/ PushBatch("B")
    \/ OrderedIngest
    \/ EtlClock
    \/ \E w \in EtlReplicas : EtlPop(w)
    \/ \E w \in EtlReplicas : EtlDedupe(w)
    \/ \E w \in EtlReplicas, storeFault \in BOOLEAN : EtlStore(w, storeFault)

SpecOrder == Init /\ [][NextOrder]_vars

\* the metric j comes before the metric k in the batch "B" as it was sent
SentBefore(j, k) ==
    LET sent == KeysOf(ParsedBody("B").metrics)
    IN \E a, b \in 1..Len(sent) : a < b /\ sent[a] = j /\ sent[b] = k

\* C37: the batch a worker pops holds the metrics of a request in the order
\* in which the request listed them, which is the order they are parsed,
\* deduplicated and inserted in.
C37_BatchKeepsEnqueueOrder ==
    [][\A w \in EtlReplicas :
          (etl[w].pc = "idle" /\ etl'[w].pc = "popped") =>
             \A i, j \in 1..Len(etl'[w].popped) :
                i < j => ~SentBefore(etl'[w].popped[j], etl'[w].popped[i])]_vars


\* ============================================================ node lifecycle
NotNodeState ==
    UNCHANGED <<now, ticks, authVars, reqCount, last, lastAuth, gwHist, limiterVars, pushVars,
                bufferVars, clockVars, failoverVars, clientVars, aggVars, alertVars, raceVars,
                retryVars>>

\* create_node (routes.py:411-445) for a caller holding write:node:create and
\* a body whose status is "registered": 409 when the node_id has a row, else
\* the row is inserted as sent and the call is written to the audit log
create_node(node_id, writeFails) ==
    /\ IF nodeRows[node_id].status # "absent"
       THEN /\ lastNode' = 409
            /\ UNCHANGED <<nodeRows, auditVars>>
       ELSE LET entry == AuditEntry("CREATE_NODE", last_hash)
            IN /\ nodeRows' = [nodeRows EXCEPT ![node_id] =
                                  [status |-> "registered", last_seen_at |-> -1]]
               /\ lastNode' = 201
               /\ auditCalls' = auditCalls + 1
               /\ last_hash' = entry.hash
               /\ auditFile' = IF writeFails THEN auditFile ELSE Append(auditFile, entry)
    /\ UNCHANGED <<cacheNodes, observed, kvVars, storeVars, etlVars>>
    /\ NotNodeState

\* the node_ids of a batch
NodeIds(batch) == {batch[i].node_id : i \in 1..Len(batch)}

\* ensure_nodes_cached (worker.py:92-150) with the node cache on: the nodes
\* of the batch that are not in cache:nodes are upserted.  A node without a
\* row gets one whose status is the column's default; a node with a row
\* keeps its row, last_seen_at set to NOW().
ensure_nodes_cached(rows, batch) ==
    [n \in Nodes |->
        IF n \notin NodeIds(batch) \ cacheNodes THEN rows[n]
        ELSE IF rows[n].status = "absent" THEN [status |-> "default", last_seen_at |-> -1]
        ELSE [rows[n] EXCEPT !.last_seen_at = now]]

\* worker.py:207-321: the store transaction with its node step.  A failed
\* transaction rolls the node rows back; cache:nodes keeps what was added.
EtlStoreNodes(w, storeFault) ==
    /\ etl[w].pc = "deduped"
    /\ LET r == InsertMetrics(etl[w].batch, storeFault)
           committed == r.path \in {"copy", "executemany"}
       IN  /\ metrics' = r.tables.metrics
           /\ conflicts' = r.tables.conflicts
           /\ Finished(w, r.path)
           /\ faulted' = (faulted \/ r.path = "failed")
           /\ nodeRows' = IF committed THEN ensure_nodes_cached(nodeRows, etl[w].batch)
                          ELSE nodeRows
           /\ cacheNodes' = cacheNodes \cup NodeIds(etl[w].batch)
           /\ observed' = IF committed THEN observed \cup NodeIds(etl[w].batch) ELSE observed
    /\ etl' = [etl EXCEPT ![w] = NoBatch]
    /\ UNCHANGED <<kvVars, useCopy, dedupEnabled, lastNode, auditVars>>
    /\ NotNodeState

\* the probes of both nodes send their metrics
NodeIngest ==
    \E b \in {<<"b1", "A">>, <<"b2", "D">>} :
        Ingest(IngestRequest(NoSig, NoTs, NoHeader, b[1], b[2], SecretBearer, NoHeader), FALSE)

NextNodes ==
    \/ \E node_id \in Nodes, writeFails \in BOOLEAN : create_node(node_id, writeFails)
    \/ NodeIngest
    \/ EtlClock
    \/ \E w \in EtlReplicas : EtlPop(w)
    \/ \E w \in EtlReplicas : EtlDedupe(w)
    \/ \E w \in EtlReplicas, storeFault \in BOOLEAN : EtlStoreNodes(w, storeFault)

SpecNodes == InitAuth /\ [][NextNodes]_vars

\* C38: a node created through POST /nodes of which the ETL has processed a
\* metric has the status reporting.
C38_ObservedNodeIsReporting ==
    \A n \in Nodes :
        (n \in observed /\ nodeRows[n].status \notin {"absent", "default"})
            => nodeRows[n].status = "reporting"

\* ------------------------------------------------- rate-limited alerts
\* replica w leaves _check_rate_limits with False: its alert is not dispatched
RateLimited(w) ==
    /\ alertPc[w].pc = "limits"
    /\ alertPc'[w] # alertPc[w]
    /\ dispatchLog' = dispatchLog

\* C39: an alert dropped by the node's quota or by the global token bucket
\* leaves no dedup key behind: the key it set in the dedup step is not alive
\* after the drop
C39_RateLimitedLeavesNoDedupKey ==
    [][\A w \in EtlReplicas :
          RateLimited(w) =>
              LET key == Head(alertPc[w].alerts)
              IN ~(/\ alertKey'[key] = alertPc[w].since + ALERT_LOOP_COOLDOWN_SEC
                   /\ alertKey'[key] > now')]_vars

\* ------------------------------------------------- refresh token as bearer
\* a request to a route behind the middleware whose bearer is a refresh token
\* of this gateway has just been taken up
BearsRefreshToken ==
    /\ Served
    /\ lastAuth'.kind = "api"
    /\ lastAuth'.bearer \in issued
    /\ lastAuth'.bearer.type = "refresh"

\* C40: a request whose bearer token has type refresh is not given an
\* authenticated identity by the middleware
C40_RefreshTokenIsNoAccessCredential ==
    [][BearsRefreshToken =>
          LET mw == Dispatch(lastAuth'.bearer, lastAuth'.path)
          IN ~(mw.code = 0 /\ mw.user # Anonymous)]_vars
====
